---- MODULE Spec2Model ----
(***************************************************************************)
(* Model of the Playwright MCP server: the tool catalogue and capability   *)
(* filter (src/src/tools/search.ts, src/src/server.ts), the call-tool and  *)
(* list-tools request handlers of a Connection (src/src/server.ts), and    *)
(* the HTTP adapter with its two session stores (src/unnamed/part_002).    *)
(*                                                                         *)
(* Conventions.  An optional JavaScript value is a set with at most one    *)
(* element: {} is undefined, {v} is the value v.  A JavaScript object is   *)
(* the set of its <<key, kind>> pairs, kind being the typeof of the value. *)
(* A record field that the JavaScript object does not have is a field the  *)
(* TLA+ record does not have.                                              *)
(***************************************************************************)
EXTENDS Integers, Sequences, FiniteSets, TLC

(***************************************************************************)
(* Bounds of the model.                                                    *)
(***************************************************************************)
MaxConnections == 1
MaxRequests == 1
MaxInFlight == 2
MaxHttpRequests == 2

(***************************************************************************)
(* Sequence helpers.                                                       *)
(***************************************************************************)
Range(s) == {s[i] : i \in 1..Len(s)}

RECURSIVE MapName(_)
MapName(tools) ==
  IF tools = <<>> THEN <<>> ELSE <<Head(tools).schema.name>> \o MapName(Tail(tools))

(***************************************************************************)
(* Tool catalogue (src/src/tools/search.ts).  inputSchema is the z.object  *)
(* shape: a set of <<key, kind, required>>.  Each factory takes            *)
(* captureSnapshot, which the tool only copies into its ToolResult.        *)
(***************************************************************************)
navigate(captureSnapshot) ==
  [capability |-> "core",
   schema |-> [name |-> "browser_navigate", title |-> "Navigate to a URL",
               description |-> "Navigate to a URL",
               inputSchema |-> {<<"url", "string", TRUE>>},
               type |-> "destructive"],
   captureSnapshot |-> captureSnapshot]

click(captureSnapshot) ==
  [capability |-> "core",
   schema |-> [name |-> "browser_click", title |-> "Click on element",
               description |-> "Click on an element",
               inputSchema |-> {<<"selector", "string", TRUE>>},
               type |-> "destructive"],
   captureSnapshot |-> captureSnapshot]

type(captureSnapshot) ==
  [capability |-> "core",
   schema |-> [name |-> "browser_type", title |-> "Type text",
               description |-> "Type text into an input field",
               inputSchema |-> {<<"selector", "string", TRUE>>, <<"text", "string", TRUE>>},
               type |-> "destructive"],
   captureSnapshot |-> captureSnapshot]

screenshot(captureSnapshot) ==
  [capability |-> "screenshot",
   schema |-> [name |-> "browser_screenshot", title |-> "Take screenshot",
               description |-> "Take a screenshot of the current page",
               inputSchema |-> {<<"fullPage", "boolean", FALSE>>},
               type |-> "readOnly"],
   captureSnapshot |-> FALSE]

wait(captureSnapshot) ==
  [capability |-> "wait",
   schema |-> [name |-> "browser_wait", title |-> "Wait for selector",
               description |-> "Wait for an element to appear",
               inputSchema |-> {<<"selector", "string", TRUE>>, <<"timeout", "number", FALSE>>},
               type |-> "readOnly"],
   captureSnapshot |-> captureSnapshot]

goBack(captureSnapshot) ==
  [capability |-> "history",
   schema |-> [name |-> "browser_navigate_back", title |-> "Go back",
               description |-> "Go back to the previous page",
               inputSchema |-> {},
               type |-> "readOnly"],
   captureSnapshot |-> captureSnapshot]

\* Faulty variant of getText: the tool is registered under the name of the
\* navigate tool.
getTextNamedNavigate(captureSnapshot) ==
  [capability |-> "core",
   schema |-> [name |-> "browser_navigate", title |-> "Get text content",
               description |-> "Get text content of an element",
               inputSchema |-> {<<"selector", "string", TRUE>>},
               type |-> "readOnly"],
   captureSnapshot |-> FALSE]

getText(captureSnapshot) ==
  [capability |-> "core",
   schema |-> [name |-> "browser_get_text", title |-> "Get text content",
               description |-> "Get text content of an element",
               inputSchema |-> {<<"selector", "string", TRUE>>},
               type |-> "readOnly"],
   captureSnapshot |-> FALSE]

newTab(captureSnapshot) ==
  [capability |-> "tabs",
   schema |-> [name |-> "browser_new_tab", title |-> "Open new tab",
               description |-> "Open a new browser tab",
               inputSchema |-> {<<"url", "string", FALSE>>},
               type |-> "destructive"],
   captureSnapshot |-> captureSnapshot]

closeTab(captureSnapshot) ==
  [capability |-> "tabs",
   schema |-> [name |-> "browser_close_tab", title |-> "Close tab",
               description |-> "Close a browser tab",
               inputSchema |-> {<<"tabId", "string", TRUE>>},
               type |-> "destructive"],
   captureSnapshot |-> FALSE]

evaluate(captureSnapshot) ==
  [capability |-> "console",
   schema |-> [name |-> "browser_evaluate", title |-> "Evaluate JavaScript",
               description |-> "Execute JavaScript in the browser context",
               inputSchema |-> {<<"expression", "string", TRUE>>},
               type |-> "destructive"],
   captureSnapshot |-> FALSE]

snapshotTools ==
  << navigate(TRUE), click(TRUE), type(TRUE), screenshot(TRUE), wait(TRUE),
     goBack(TRUE), getText(TRUE), newTab(TRUE), closeTab(TRUE), evaluate(TRUE) >>

visionTools ==
  << navigate(FALSE), screenshot(FALSE), wait(FALSE), goBack(FALSE),
     getText(FALSE), newTab(FALSE), closeTab(FALSE), evaluate(FALSE) >>

\* The ToolCapability union of types.ts.
ToolCapability ==
  {"core", "history", "console", "dialogs", "files", "keyboard", "network",
   "pdf", "screenshot", "tabs", "testing", "vision", "wait"}

(***************************************************************************)
(* Inputs.  OptionInputs are the option objects handed to parseConfig;     *)
(* the allow-lists range over the subsets of AllowListCaps (the always-on  *)
(* tag, a tag of one tool, a tag of two tools, a tag of no tool).          *)
(***************************************************************************)
AllowListCaps == {"core", "screenshot", "tabs", "pdf"}

OptionInputs ==
  [browser : {{}}, headless : {{}}, context : {{}},
   vision : {{}, {TRUE}},
   capabilities : {{}} \cup {{caps} : caps \in SUBSET AllowListCaps}]

FullArgs ==
  {<<"url", "string">>, <<"selector", "string">>, <<"text", "string">>,
   <<"fullPage", "boolean">>, <<"timeout", "number">>, <<"tabId", "string">>,
   <<"expression", "string">>}

WrongArgs ==
  {<<"url", "number">>, <<"selector", "number">>, <<"fullPage", "string">>,
   <<"tabId", "boolean">>, <<"expression", "number">>}

\* request.params.arguments: undefined, {}, an object with every key well
\* typed, an object with wrongly typed keys.
ArgInputs == {{}, {{}}, {FullArgs}, {WrongArgs}}

NameInputs == Range(MapName(snapshotTools)) \cup {"browser_unknown"}

(***************************************************************************)
(* parseConfig (src/src/config.ts).                                        *)
(***************************************************************************)
OrElse(opt, default) == IF opt = {} THEN default ELSE CHOOSE v \in opt : TRUE

\* Faulty variant of parseConfig: capabilities: options.capabilities || [],
\* which turns an absent allow-list into an empty one.
parseConfigDefaulting(options) ==
  [browser |-> [browser |-> OrElse(options.browser, "chromium"),
                headless |-> (options.headless # {FALSE}),
                context |-> OrElse(options.context, "isolated")],
   vision |-> (options.vision = {TRUE}),
   capabilities |-> IF options.capabilities = {} THEN {{}} ELSE options.capabilities]

parseConfig(options) ==
  [browser |-> [browser |-> OrElse(options.browser, "chromium"),
                headless |-> (options.headless # {FALSE}),
                context |-> OrElse(options.context, "isolated")],
   vision |-> (options.vision = {TRUE}),
   capabilities |-> options.capabilities]

(***************************************************************************)
(* The capability filter of Server.createConnection (server.ts 36-41).     *)
(* An array is truthy even when empty, so !capabilities holds only for an  *)
(* absent allow-list.                                                      *)
(***************************************************************************)
\* Faulty variant of allTools: the mode flag is not looked at.
allToolsIgnoringVision(cfg) == snapshotTools

allTools(cfg) == IF cfg.vision THEN visionTools ELSE snapshotTools

\* Faulty variant of IsVisible: the always-on tag is not special.
IsVisibleNoCore(cfg, tool) ==
  \/ cfg.capabilities = {}
  \/ \E caps \in cfg.capabilities : tool.capability \in caps

IsVisible(cfg, tool) ==
  \/ cfg.capabilities = {}
  \/ tool.capability = "core"
  \/ \E caps \in cfg.capabilities : tool.capability \in caps

filterTools(cfg) == SelectSeq(allTools(cfg), LAMBDA tool : IsVisible(cfg, tool))

(***************************************************************************)
(* zod's z.object(shape).parse: the value must be an object, every         *)
(* required key present, every present key of the declared kind; unknown   *)
(* keys are stripped.                                                      *)
(***************************************************************************)
HasKey(obj, key) == \E p \in obj : p[1] = key

SchemaAccepts(tool, arguments) ==
  /\ arguments # {}
  /\ \A obj \in arguments : \A f \in tool.schema.inputSchema :
       /\ f[3] => HasKey(obj, f[1])
       /\ \A p \in obj : p[1] = f[1] => p[2] = f[2]

(***************************************************************************)
(* Tool.handle under the mock Context of createConnection (server.ts       *)
(* 44-67), whose methods all resolve.  The only fault is the TypeError of  *)
(* reading a property of undefined params (its message is the one of V8).  *)
(* The result's code strings are not modelled: the server never reads them.*)
(***************************************************************************)
TypeErrorReading(prop) ==
  [name |-> "TypeError",
   message |-> "Cannot read properties of undefined (reading '" \o prop \o "')"]

Throws(error) == [threw |-> TRUE, error |-> error]

Returns(captureSnapshot, action) ==
  [threw |-> FALSE,
   result |-> [captureSnapshot |-> captureSnapshot, waitForNetwork |-> FALSE,
               action |-> action]]

handle(tool, params) ==
  LET name == tool.schema.name
      snap == tool.captureSnapshot
  IN CASE name = "browser_navigate" ->
            IF params = {} THEN Throws(TypeErrorReading("url")) ELSE Returns(snap, {})
       [] name = "browser_click" ->
            IF params = {} THEN Throws(TypeErrorReading("selector")) ELSE Returns(snap, {})
       [] name = "browser_type" ->
            IF params = {} THEN Throws(TypeErrorReading("selector")) ELSE Returns(snap, {})
       [] name = "browser_screenshot" ->
            IF params = {} THEN Throws(TypeErrorReading("fullPage"))
            ELSE Returns(FALSE, {[content |-> <<[type |-> "image", data |-> "",
                                                mimeType |-> "image/png"]>>]})
       [] name = "browser_wait" ->
            IF params = {} THEN Throws(TypeErrorReading("selector")) ELSE Returns(snap, {})
       [] name = "browser_navigate_back" -> Returns(snap, {})
       [] name = "browser_get_text" ->
            IF params = {} THEN Throws(TypeErrorReading("selector"))
            ELSE Returns(FALSE, {[content |-> <<[type |-> "text", text |-> ""]>>]})
       [] name = "browser_new_tab" ->
            IF params = {} THEN Throws(TypeErrorReading("url")) ELSE Returns(snap, {})
       [] name = "browser_close_tab" ->
            IF params = {} THEN Throws(TypeErrorReading("tabId")) ELSE Returns(FALSE, {})
       [] name = "browser_evaluate" ->
            \* JSON.stringify(undefined) is undefined: the item has no text.
            IF params = {} THEN Throws(TypeErrorReading("expression"))
            ELSE Returns(FALSE, {[content |-> <<[type |-> "text"]>>]})

(***************************************************************************)
(* The results of the handlers of Server.createConnection.                 *)
(***************************************************************************)
\* String(error) of an Error object.
ErrorToString(error) == error.name \o ": " \o error.message

TextItem(text) == [type |-> "text", text |-> text]

NotFoundResult(name) ==
  [content |-> <<TextItem("Tool \"" \o name \o "\" not found")>>, isError |-> TRUE]

ExecutedResult == [content |-> <<TextItem("Tool executed successfully")>>]

\* Faulty variant of ErrorResult: the text is a fixed string, the fault's
\* message is lost.
ErrorResultFixedText(error) ==
  [content |-> <<TextItem("Tool execution failed")>>, isError |-> TRUE]

ErrorResult(error) ==
  [content |-> <<TextItem(ErrorToString(error))>>, isError |-> TRUE]

\* Faulty variant of findTool: the name is looked up in the whole catalogue
\* instead of the connection's tools.
findToolInCatalogue(tools, name) ==
  LET hits == {i \in 1..Len(snapshotTools) : snapshotTools[i].schema.name = name}
  IN IF hits = {} THEN {}
     ELSE {snapshotTools[CHOOSE i \in hits : \A j \in hits : i <= j]}

\* tools.find(t => t.schema.name === request.params.name): {} when none.
findTool(tools, name) ==
  LET hits == {i \in 1..Len(tools) : tools[i].schema.name = name}
  IN IF hits = {} THEN {}
     ELSE {tools[CHOOSE i \in hits : \A j \in hits : i <= j]}

\* Faulty variant of ListToolsResult: the whole catalogue is listed.
ListAllTools(tools) ==
  [tools |-> [i \in 1..Len(snapshotTools) |->
                [name |-> snapshotTools[i].schema.name,
                 description |-> snapshotTools[i].schema.description,
                 inputSchema |-> snapshotTools[i].schema.inputSchema]]]

\* Faulty variant of ListToolsResult: the descriptors come out in the
\* opposite order.
ListToolsResultReversed(tools) ==
  [tools |-> [i \in 1..Len(tools) |->
                [name |-> tools[Len(tools) + 1 - i].schema.name,
                 description |-> tools[Len(tools) + 1 - i].schema.description,
                 inputSchema |-> tools[Len(tools) + 1 - i].schema.inputSchema]]]

ListToolsResult(tools) ==
  [tools |-> [i \in 1..Len(tools) |->
                [name |-> tools[i].schema.name,
                 description |-> tools[i].schema.description,
                 inputSchema |-> tools[i].schema.inputSchema]]]

(***************************************************************************)
(* State.                                                                  *)
(*   options      the options object given to parseConfig                  *)
(*   config       Server.config                                            *)
(*   connections  Server._connectionList; each Connection carries the      *)
(*                tools its handlers closed over, its own context and the  *)
(*                state of its protocol server                             *)
(*   requests     the tools/list and tools/call requests received, in      *)
(*                order of arrival, each with the position of its handler, *)
(*                the results the handler has returned, how often handle   *)
(*                and the action were called, and how many requests of its *)
(*                connection had been answered when it arrived             *)
(*   uuids        how many identifiers randomUUID has produced; the n-th   *)
(*                identifier is n, and 0 stands for an identifier that was *)
(*                never produced                                           *)
(*   transports   the transport objects made by the HTTP adapter           *)
(*   streamableSessions, sseSessions                                       *)
(*                the two session stores of the HTTP adapter               *)
(*   httpRequests the HTTP requests received, each with the position of    *)
(*                its handler and the reply written so far                 *)
(*   signals      the termination signals the process has received         *)
(*   isExiting    the guard of Server.setupExitWatchdog                    *)
(*   fallbackTimers, timerFired                                            *)
(*                how many fallback timers were armed, and whether one     *)
(*                has fired                                                *)
(*   closes       the calls of Connection.close made by the watchdog, each *)
(*                with the number of timers armed when it was made and the *)
(*                state of its promise                                     *)
(*   shutdowns    the runs of the watchdog's shutdown body, each with the  *)
(*                close calls its Promise.all awaits                       *)
(*   exitCode     the code the process exited with; {} while it runs       *)
(*   argv         process.argv.slice(2), a sequence of strings             *)
(*   envPort      process.env.PORT                                         *)
(*   cliOptions   what parseArgs returned, once main has called it         *)
(*   transportMode                                                         *)
(*                the transport main has started                           *)
(***************************************************************************)
VARIABLES options, config, connections, requests,
          uuids, transports, streamableSessions, sseSessions, httpRequests,
          signals, isExiting, fallbackTimers, timerFired, closes, shutdowns,
          exitCode, argv, envPort, cliOptions, transportMode

dispatchVars == <<options, config, connections, requests>>

httpVars == <<uuids, transports, streamableSessions, sseSessions, httpRequests>>

watchdogVars ==
  <<signals, isExiting, fallbackTimers, timerFired, closes, shutdowns, exitCode>>

startVars == <<argv, envPort, cliOptions, transportMode>>

Connected(c) == c \in 1..Len(connections) /\ connections[c].state = "connected"

\* Faulty variant of NewConnection: the context is one object of the module,
\* shared by every connection.
NewConnectionSharedContext(cfg, id) ==
  [tools |-> filterTools(cfg),
   context |-> [owner |-> 1, modalState |-> "null"],
   state |-> "connecting"]

\* Server.createConnection up to the await of server.connect (35-113): the
\* tools are filtered once, a context and a protocol server are made, and
\* the Connection is pushed onto _connectionList.
NewConnection(cfg, id) ==
  [tools |-> filterTools(cfg),
   context |-> [owner |-> id, modalState |-> "null"],
   state |-> "connecting"]

createConnection ==
  /\ connections' = Append(connections, NewConnection(config, Len(connections) + 1))
  /\ UNCHANGED <<startVars, watchdogVars, options, config, requests>>
  /\ UNCHANGED httpVars

\* await server.connect(transport) resolves (114-115).
connectResolves(c) ==
  /\ c \in 1..Len(connections)
  /\ connections[c].state = "connecting"
  /\ connections' = [connections EXCEPT ![c].state = "connected"]
  /\ UNCHANGED <<startVars, watchdogVars, options, config, requests>>
  /\ UNCHANGED httpVars

\* The requests of connection c that were answered already.
Answered(c) == {r \in 1..Len(requests) : requests[r].conn = c /\ requests[r].pc = "done"}

\* The ListToolsRequestSchema handler (74-82): no await, one return.
ListToolsHandler(c) ==
  [conn |-> c, method |-> "tools/list", name |-> "", arguments |-> {},
   arrivedAfter |-> Cardinality(Answered(c)), pc |-> "done", handleRuns |-> 0, actionRuns |-> 0,
   results |-> <<ListToolsResult(connections[c].tools)>>]

listTools(c) ==
  /\ Connected(c)
  /\ requests' = Append(requests, ListToolsHandler(c))
  /\ UNCHANGED <<startVars, watchdogVars, options, config, connections>>
  /\ UNCHANGED httpVars

\* The CallToolRequestSchema handler up to its first await (84-94): the tool
\* is looked up among the connection's tools; an unknown name returns at
\* once, otherwise tool.handle is called with the raw arguments.
CallToolBegin(c, name, arguments) ==
  LET base == [conn |-> c, method |-> "tools/call", name |-> name,
               arguments |-> arguments, arrivedAfter |-> Cardinality(Answered(c)),
               actionRuns |-> 0, context |-> connections[c].context]
  IN IF findTool(connections[c].tools, name) = {}
     THEN base @@ [pc |-> "done", handleRuns |-> 0,
                   results |-> <<NotFoundResult(name)>>]
     ELSE base @@ [pc |-> "handle", handleRuns |-> 1, results |-> <<>>]

callTool(c, name, arguments) ==
  /\ Connected(c)
  /\ requests' = Append(requests, CallToolBegin(c, name, arguments))
  /\ UNCHANGED <<startVars, watchdogVars, options, config, connections>>
  /\ UNCHANGED httpVars

ToolOf(req) == CHOOSE t \in findTool(connections[req.conn].tools, req.name) : TRUE

\* Faulty variant of AfterHandle: the test of result.action is inverted, so a
\* result without an action calls undefined and lands in the catch block.
AfterHandleInverted(req, outcome) ==
  IF outcome.threw
  THEN [req EXCEPT !.pc = "done", !.results = Append(@, ErrorResult(outcome.error))]
  ELSE IF outcome.result.action = {}
  THEN [req EXCEPT !.pc = "done",
          !.results = Append(@, ErrorResult([name |-> "TypeError",
                                             message |-> "result.action is not a function"]))]
  ELSE [req EXCEPT !.pc = "done", !.results = Append(@, ExecutedResult)]

\* Faulty variant of AfterHandle: no try/catch, so a rejection of tool.handle
\* rejects the handler and no result is returned.
AfterHandleNoCatch(req, outcome) ==
  IF outcome.threw
  THEN [req EXCEPT !.pc = "done"]
  ELSE IF outcome.result.action # {}
  THEN [req EXCEPT !.pc = "action", !.actionRuns = @ + 1]
  ELSE [req EXCEPT !.pc = "done", !.results = Append(@, ExecutedResult)]

\* await tool.handle settles (94-95, 101-109): a rejection goes to the catch
\* block, a result with an action starts the action, any other result
\* returns the fixed text.
AfterHandle(req, outcome) ==
  IF outcome.threw
  THEN [req EXCEPT !.pc = "done", !.results = Append(@, ErrorResult(outcome.error))]
  ELSE IF outcome.result.action # {}
  THEN [req EXCEPT !.pc = "action", !.actionRuns = @ + 1]
  ELSE [req EXCEPT !.pc = "done", !.results = Append(@, ExecutedResult)]

handleSettles(r) ==
  /\ r \in 1..Len(requests)
  /\ requests[r].pc = "handle"
  /\ requests' = [requests EXCEPT ![r] =
                    AfterHandle(@, handle(ToolOf(@), @.arguments))]
  /\ UNCHANGED <<startVars, watchdogVars, options, config, connections>>
  /\ UNCHANGED httpVars

\* Faulty variant of AfterAction: the content of the action is dropped and
\* the fixed text is returned.
AfterActionFixedText(req, actionResult) ==
  [req EXCEPT !.pc = "done", !.results = Append(@, ExecutedResult)]

\* await result.action() settles (96-103): content, when there is any, is
\* returned as it is.
AfterAction(req, actionResult) ==
  IF actionResult # {} /\ \A a \in actionResult : "content" \in DOMAIN a
  THEN [req EXCEPT !.pc = "done",
                   !.results = Append(@, [content |-> (CHOOSE a \in actionResult : TRUE).content])]
  ELSE [req EXCEPT !.pc = "done", !.results = Append(@, ExecutedResult)]

actionSettles(r) ==
  /\ r \in 1..Len(requests)
  /\ requests[r].pc = "action"
  /\ requests' = [requests EXCEPT ![r] =
                    AfterAction(@, handle(ToolOf(@), @.arguments).result.action)]
  /\ UNCHANGED <<startVars, watchdogVars, options, config, connections>>
  /\ UNCHANGED httpVars

\* The HTTP adapter before any request.
HttpIdle ==
  /\ uuids = 0
  /\ transports = <<>>
  /\ streamableSessions = <<>>
  /\ sseSessions = <<>>
  /\ httpRequests = <<>>

\* The watchdog before any signal, the process running.
WatchdogIdle ==
  /\ signals = <<>>
  /\ isExiting = FALSE
  /\ fallbackTimers = 0
  /\ timerFired = FALSE
  /\ closes = <<>>
  /\ shutdowns = <<>>
  /\ exitCode = {}

\* A process that was started without arguments and has not run main.
NotStarted ==
  /\ argv = <<>>
  /\ envPort = {}
  /\ cliOptions = {}
  /\ transportMode = {}

Init ==
  /\ options \in OptionInputs
  /\ config = parseConfig(options)
  /\ connections = <<>>
  /\ requests = <<>>
  /\ HttpIdle
  /\ WatchdogIdle
  /\ NotStarted

\* One request at a time, over every option object, name and argument input.
Next ==
  \/ Len(connections) < MaxConnections /\ createConnection
  \/ \E c \in 1..MaxConnections : connectResolves(c)
  \/ \E c \in 1..MaxConnections : Len(requests) < MaxRequests /\ listTools(c)
  \/ \E c \in 1..MaxConnections, name \in NameInputs, arguments \in ArgInputs :
       Len(requests) < MaxRequests /\ callTool(c, name, arguments)
  \/ \E r \in 1..MaxRequests : handleSettles(r)
  \/ \E r \in 1..MaxRequests : actionSettles(r)

vars == <<dispatchVars, httpVars, watchdogVars, startVars>>

Spec == Init /\ [][Next]_vars

(***************************************************************************)
(* Several requests in flight on one connection: the option objects are    *)
(* the two of the snapshot tool set with the allow-list absent or empty,   *)
(* the arguments undefined (handle throws) or complete, the names those of *)
(* a tool without an action, a tool with an action, a tool the empty       *)
(* allow-list hides, a tool whose handle never reads its arguments, and a  *)
(* name of no tool.                                                        *)
(***************************************************************************)
ConcOptionInputs ==
  {o \in OptionInputs : o.vision = {} /\ o.capabilities \in {{}, {{}}}}

ConcArgInputs == {{}, {FullArgs}}

ConcNameInputs ==
  {"browser_navigate", "browser_get_text", "browser_screenshot",
   "browser_navigate_back", "browser_unknown"}

InitConc ==
  /\ options \in ConcOptionInputs
  /\ config = parseConfig(options)
  /\ connections = <<>>
  /\ requests = <<>>
  /\ HttpIdle
  /\ WatchdogIdle
  /\ NotStarted

NextConc ==
  \/ Len(connections) < MaxConnections /\ createConnection
  \/ \E c \in 1..MaxConnections : connectResolves(c)
  \/ \E c \in 1..MaxConnections : Len(requests) < MaxInFlight /\ listTools(c)
  \/ \E c \in 1..MaxConnections, name \in ConcNameInputs, arguments \in ConcArgInputs :
       Len(requests) < MaxInFlight /\ callTool(c, name, arguments)
  \/ \E r \in 1..MaxInFlight : handleSettles(r)
  \/ \E r \in 1..MaxInFlight : actionSettles(r)

SpecConc == InitConc /\ [][NextConc]_vars

(***************************************************************************)
(* The HTTP adapter (src/unnamed/part_002).                                *)
(*                                                                         *)
(* randomUUID is modelled as a source of fresh identifiers.  The transport *)
(* classes belong to the MCP SDK; what is modelled of them is what the     *)
(* adapter relies on: StreamableHTTPServerTransport.handleRequest with its *)
(* session validation, and the close and error callbacks of                *)
(* SSEServerTransport.                                                     *)
(***************************************************************************)
Put(store, key, entry) ==
  [k \in DOMAIN store \cup {key} |-> IF k = key THEN entry ELSE store[k]]

Delete(store, key) == [k \in DOMAIN store \ {key} |-> store[k]]

Reply(status, body) == [status |-> status, body |-> body, sessionId |-> {}]

\* An HTTP request: the path, the method, the session header (mcp-session-id
\* on /mcp, x-session-id on /sse) and the kind of JSON-RPC message in the
\* body; then the handler's position and locals: whether the header named a
\* stored session, the reply, the connection, the transport and the
\* identifier drawn (0 when there is none); url is the request target as
\* it was sent and host the Host header.
HttpRequest(path, method, sessionId, body) ==
  [path |-> path, method |-> method, sessionId |-> sessionId, body |-> body,
   pc |-> "received", found |-> FALSE, reply |-> {}, conn |-> 0,
   transport |-> 0, key |-> 0, url |-> path, host |-> "localhost:8000"]

\* createConnection of the adapter (26-28) calls the library entry point,
\* which makes a Connection with its own tools, context and protocol server.
createPlaywrightConnection(id) == NewConnection(config, id)

\* A transport object: sessionId and initialized are the SDK transport's
\* own, key is the identifier the adapter's callbacks closed over.
NewTransport(kind, conn) ==
  [kind |-> kind, conn |-> conn, sessionId |-> {}, initialized |-> FALSE,
   key |-> 0, started |-> FALSE, closed |-> FALSE, errored |-> FALSE]

\* handleStreamable up to its first await (84-96): a request whose header
\* names a stored session goes to that session's transport; any other
\* request, with or without a header, gets a new connection.  The handler
\* never looks at the request's method.
streamableRequest(method, sessionId, body) ==
  LET h == HttpRequest("/mcp", method, sessionId, body)
      known == \E id \in sessionId : id \in DOMAIN streamableSessions
  IN /\ IF known
        THEN LET session == streamableSessions[CHOOSE id \in sessionId : TRUE]
             IN /\ httpRequests' = Append(httpRequests,
                      [h EXCEPT !.pc = "forwarded", !.found = TRUE,
                                !.conn = session.connection,
                                !.transport = session.transport])
                /\ UNCHANGED connections
        ELSE /\ connections' = Append(connections,
                                      createPlaywrightConnection(Len(connections) + 1))
             /\ httpRequests' = Append(httpRequests,
                  [h EXCEPT !.pc = "created", !.conn = Len(connections) + 1])
     /\ UNCHANGED <<startVars, watchdogVars, options, config, requests, uuids, transports,
                    streamableSessions, sseSessions>>

\* handleStreamable for a POST request.
handleStreamable(sessionId, body) == streamableRequest("POST", sessionId, body)

\* Faulty variant of streamableConnect: the session is stored as soon as the
\* transport is made, under an identifier the adapter draws itself.
streamableConnectStoresEarly(i) ==
  /\ i \in 1..Len(httpRequests)
  /\ httpRequests[i].path = "/mcp"
  /\ httpRequests[i].pc = "created"
  /\ transports' = Append(transports,
                          [NewTransport("streamable", httpRequests[i].conn)
                             EXCEPT !.started = TRUE])
  /\ connections' = [connections EXCEPT ![httpRequests[i].conn].state = "connected"]
  /\ httpRequests' = [httpRequests EXCEPT ![i].pc = "forwarded",
                                          ![i].transport = Len(transports) + 1]
  /\ uuids' = uuids + 1
  /\ streamableSessions' = Put(streamableSessions, uuids + 1,
                               [transport |-> Len(transports) + 1,
                                connection |-> httpRequests[i].conn])
  /\ UNCHANGED <<startVars, watchdogVars, options, config, requests, sseSessions>>

\* new StreamableHTTPServerTransport and await connection.server.connect
\* (97-107).
streamableConnect(i) ==
  /\ i \in 1..Len(httpRequests)
  /\ httpRequests[i].path = "/mcp"
  /\ httpRequests[i].pc = "created"
  /\ transports' = Append(transports,
                          [NewTransport("streamable", httpRequests[i].conn)
                             EXCEPT !.started = TRUE])
  /\ connections' = [connections EXCEPT ![httpRequests[i].conn].state = "connected"]
  /\ httpRequests' = [httpRequests EXCEPT ![i].pc = "forwarded",
                                          ![i].transport = Len(transports) + 1]
  /\ UNCHANGED <<startVars, watchdogVars, options, config, requests, uuids, streamableSessions, sseSessions>>

\* The session validation of the SDK transport for a message that is not an
\* initialize request: {} when the request passes.
ValidateSession(transport, sessionId) ==
  IF ~transport.initialized
  THEN {Reply(400, "Bad Request: Server not initialized")}
  ELSE IF sessionId = {}
  THEN {Reply(400, "Bad Request: Mcp-Session-Id header is required")}
  ELSE IF sessionId # transport.sessionId
  THEN {Reply(404, "Session not found")}
  ELSE {}

\* Faulty variant of onsessioninitialized: the callback does not store the
\* session.
onsessioninitializedDropped(store, sessionId, transport, connection) == store

\* Faulty variant of onsessioninitialized: every session is stored under
\* one fixed identifier.
onsessioninitializedFixedKey(store, sessionId, transport, connection) ==
  Put(store, 1, [transport |-> transport, connection |-> connection])

\* Faulty variant of onsessioninitialized: the entry holds the first
\* transport of the process in place of the session's own.
onsessioninitializedFirstTransport(store, sessionId, transport, connection) ==
  Put(store, sessionId, [transport |-> 1, connection |-> connection])

\* onsessioninitialized (99-104): the session enters the store under the
\* identifier the transport generated.
onsessioninitialized(store, sessionId, transport, connection) ==
  Put(store, sessionId, [transport |-> transport, connection |-> connection])

\* transport.handleRequest (90, 108) for an initialize request: a transport
\* takes one initialization, generates its identifier and reports it.
transportInitialize(i) ==
  /\ i \in 1..Len(httpRequests)
  /\ httpRequests[i].pc = "forwarded"
  /\ httpRequests[i].body = "initialize"
  /\ LET h == httpRequests[i]
         t == h.transport
     IN IF transports[t].initialized
        THEN /\ httpRequests' = [httpRequests EXCEPT ![i].pc = "replied",
                   ![i].reply = {Reply(400, "Invalid Request: Server already initialized")}]
             /\ UNCHANGED <<uuids, transports, streamableSessions>>
        ELSE /\ uuids' = uuids + 1
             /\ transports' = [transports EXCEPT ![t].initialized = TRUE,
                                                 ![t].sessionId = {uuids + 1}]
             /\ streamableSessions' =
                  onsessioninitialized(streamableSessions, uuids + 1, t, h.conn)
             /\ httpRequests' = [httpRequests EXCEPT ![i].pc = "replied",
                   ![i].reply = {[Reply(200, "InitializeResult") EXCEPT
                                    !.sessionId = {uuids + 1}]}]
  /\ UNCHANGED <<startVars, watchdogVars, options, config, connections, requests, sseSessions>>

\* transport.handleRequest (90, 108) for a tools/list request: after the
\* session validation the message reaches the connection's handler.
transportRequest(i) ==
  /\ i \in 1..Len(httpRequests)
  /\ httpRequests[i].pc = "forwarded"
  /\ httpRequests[i].body = "tools/list"
  /\ LET h == httpRequests[i]
         refusal == ValidateSession(transports[h.transport], h.sessionId)
     IN IF refusal # {}
        THEN /\ httpRequests' = [httpRequests EXCEPT ![i].pc = "replied",
                                                     ![i].reply = refusal]
             /\ UNCHANGED requests
        ELSE /\ requests' = Append(requests, ListToolsHandler(h.conn))
             /\ httpRequests' = [httpRequests EXCEPT ![i].pc = "replied",
                                   ![i].reply = {Reply(200, "ListToolsResult")}]
  /\ UNCHANGED <<startVars, watchdogVars, options, config, connections, uuids, transports,
                 streamableSessions, sseSessions>>

\* handleSSE, GET branch, up to its first await (34-37): the identifier is
\* drawn, then the connection is made.
handleSSE ==
  /\ uuids' = uuids + 1
  /\ connections' = Append(connections,
                           createPlaywrightConnection(Len(connections) + 1))
  /\ httpRequests' = Append(httpRequests,
       [HttpRequest("/sse", "GET", {}, "") EXCEPT
          !.pc = "created", !.conn = Len(connections) + 1, !.key = uuids + 1])
  /\ UNCHANGED <<startVars, watchdogVars, options, config, requests, transports, streamableSessions,
                 sseSessions>>

\* handleSSE, GET branch, after the await (38-51): the transport is made,
\* the session is stored, the callbacks are set, the server is connected
\* and the event stream is open.
sseConnect(i) ==
  /\ i \in 1..Len(httpRequests)
  /\ httpRequests[i].path = "/sse"
  /\ httpRequests[i].pc = "created"
  /\ transports' = Append(transports,
       [NewTransport("sse", httpRequests[i].conn) EXCEPT
          !.started = TRUE, !.key = httpRequests[i].key])
  /\ sseSessions' = Put(sseSessions, httpRequests[i].key,
                        [transport |-> Len(transports) + 1,
                         connection |-> httpRequests[i].conn])
  /\ connections' = [connections EXCEPT ![httpRequests[i].conn].state = "connected"]
  /\ httpRequests' = [httpRequests EXCEPT ![i].pc = "streaming",
                                          ![i].transport = Len(transports) + 1]
  /\ UNCHANGED <<startVars, watchdogVars, options, config, requests, uuids, streamableSessions>>

\* Faulty variant of onerror: the error is logged and the session is kept.
onerrorLogOnly(store, sessionId) == store

\* The body of transport.onerror (42-45); sessionId is the identifier the
\* callback closed over, kept in the transport's key.
onerror(store, sessionId) == Delete(store, sessionId)

\* Faulty variant of onclose: sseSessions.clear() in place of the delete.
oncloseClear(store, sessionId) == [k \in {} |-> store[k]]

\* The body of transport.onclose (47-49).
onclose(store, sessionId) == Delete(store, sessionId)

OpenSse(t) ==
  /\ t \in 1..Len(transports)
  /\ transports[t].kind = "sse"
  /\ transports[t].started
  /\ ~transports[t].closed

\* The error callback of an event-stream transport fires (a write failed).
sseError(t) ==
  /\ OpenSse(t)
  /\ transports' = [transports EXCEPT ![t].errored = TRUE]
  /\ sseSessions' = onerror(sseSessions, transports[t].key)
  /\ UNCHANGED <<startVars, watchdogVars, options, config, connections, requests, uuids,
                 streamableSessions, httpRequests>>

\* The close callback of an event-stream transport fires (the peer went
\* away, or the transport was closed).
sseClose(t) ==
  /\ OpenSse(t)
  /\ transports' = [transports EXCEPT ![t].closed = TRUE]
  /\ sseSessions' = onclose(sseSessions, transports[t].key)
  /\ UNCHANGED <<startVars, watchdogVars, options, config, connections, requests, uuids,
                 streamableSessions, httpRequests>>

\* The session headers a client can send: none, an identifier the server
\* never produced, or one it has produced.
SessionHeaders == {{}} \cup {{id} : id \in 0..uuids}

InitHttp ==
  /\ options \in {o \in OptionInputs : o.vision = {} /\ o.capabilities = {}}
  /\ config = parseConfig(options)
  /\ connections = <<>>
  /\ requests = <<>>
  /\ HttpIdle
  /\ WatchdogIdle
  /\ NotStarted

NextHttp ==
  \/ \E sessionId \in SessionHeaders, body \in {"initialize", "tools/list"} :
       Len(httpRequests) < MaxHttpRequests /\ handleStreamable(sessionId, body)
  \/ \E i \in 1..MaxHttpRequests : streamableConnect(i)
  \/ \E i \in 1..MaxHttpRequests : transportInitialize(i)
  \/ \E i \in 1..MaxHttpRequests : transportRequest(i)
  \/ Len(httpRequests) < MaxHttpRequests /\ handleSSE
  \/ \E i \in 1..MaxHttpRequests : sseConnect(i)
  \/ \E t \in 1..MaxHttpRequests : sseError(t)
  \/ \E t \in 1..MaxHttpRequests : sseClose(t)

SpecHttp == InitHttp /\ [][NextHttp]_vars

(***************************************************************************)
(* The end of a streamable session and of the adapter's process            *)
(* (src/unnamed/part_002 83-109, 180-189).                                 *)
(***************************************************************************)
MaxLifecycleRequests == 3

Running == exitCode = {}

\* What the adapter does to its store when a streamable transport closes:
\* it sets no onclose on the transport (97-105), so the store stays as it is.
streamableOnclose(store, sessionId) == store

\* transport.handleRequest (90, 108) for a DELETE request: after the session
\* validation the SDK transport closes itself and answers 200; the close
\* disconnects the protocol server that was connected to it (107).
transportDelete(i) ==
  /\ i \in 1..Len(httpRequests)
  /\ httpRequests[i].pc = "forwarded"
  /\ httpRequests[i].method = "DELETE"
  /\ LET h == httpRequests[i]
         t == h.transport
         refusal == ValidateSession(transports[t], h.sessionId)
     IN IF refusal # {}
        THEN /\ httpRequests' = [httpRequests EXCEPT ![i].pc = "replied",
                                                     ![i].reply = refusal]
             /\ UNCHANGED <<connections, transports, streamableSessions>>
        ELSE /\ transports' = [transports EXCEPT ![t].closed = TRUE]
             /\ connections' = [connections EXCEPT ![transports[t].conn].state = "closed"]
             /\ streamableSessions' =
                  streamableOnclose(streamableSessions, transports[t].sessionId)
             /\ httpRequests' = [httpRequests EXCEPT ![i].pc = "replied",
                                                     ![i].reply = {Reply(200, "")}]
  /\ UNCHANGED <<startVars, watchdogVars, options, config, requests, uuids, sseSessions>>

\* The SIGINT and SIGTERM handlers of the adapter (181-189): the process
\* exits at once.
adapterSignal(signal) ==
  /\ signals' = Append(signals, signal)
  /\ exitCode' = {0}
  /\ UNCHANGED <<isExiting, fallbackTimers, timerFired, closes, shutdowns>>
  /\ UNCHANGED dispatchVars
  /\ UNCHANGED <<httpVars, startVars>>

\* A request that was handed to a transport which is still open.
AtOpenTransport(i) ==
  /\ i \in 1..Len(httpRequests)
  /\ httpRequests[i].pc = "forwarded"
  /\ ~transports[httpRequests[i].transport].closed

\* The session headers of the identifiers the server has issued.
IssuedHeaders == {{id} : id \in 1..uuids}

\* Sessions of both variants are opened, used, terminated by a DELETE
\* request, and the process is signalled.  What the SDK transport does with
\* a message that reaches it after it closed is not modelled: such a request
\* stays where the adapter left it.
NextLifecycle ==
  \/ /\ Running /\ Len(httpRequests) < MaxLifecycleRequests
     /\ handleStreamable({}, "initialize")
  \/ \E sessionId \in IssuedHeaders :
       /\ Running /\ Len(httpRequests) < MaxLifecycleRequests
       /\ handleStreamable(sessionId, "tools/list")
  \/ \E sessionId \in IssuedHeaders :
       /\ Running /\ Len(httpRequests) < MaxLifecycleRequests
       /\ streamableRequest("DELETE", sessionId, "")
  \/ \E i \in 1..MaxLifecycleRequests : Running /\ streamableConnect(i)
  \/ \E i \in 1..MaxLifecycleRequests :
       Running /\ AtOpenTransport(i) /\ transportInitialize(i)
  \/ \E i \in 1..MaxLifecycleRequests :
       Running /\ AtOpenTransport(i) /\ transportRequest(i)
  \/ \E i \in 1..MaxLifecycleRequests : Running /\ transportDelete(i)
  \/ Running /\ Len(httpRequests) < MaxLifecycleRequests /\ handleSSE
  \/ \E i \in 1..MaxLifecycleRequests : Running /\ sseConnect(i)
  \/ \E signal \in {"SIGINT", "SIGTERM"} : Running /\ adapterSignal(signal)

SpecLifecycle == InitHttp /\ [][NextLifecycle]_vars

(***************************************************************************)
(* Inbound frames (src/unnamed/part_002 52-79, 83-109).  A body is one of  *)
(* four texts: a well-formed initialize request, a well-formed tools/list  *)
(* request, a text cut off after its first brace, and a JSON object that   *)
(* is no JSON-RPC message.                                                 *)
(***************************************************************************)
Bodies == {"initialize", "tools/list", "{", "{}"}

\* Whether JSON.parse(body) returns (70).
JsonParses(body) == body # "{"

\* Whether the parsed body is a Request, a Notification or a Response.
IsRpcMessage(body) == body \in {"initialize", "tools/list"}

\* Faulty variant of handleSSEPost: the body listeners are registered
\* whether or not the session was found.
handleSSEPostNoLookup(sessionId, body) ==
  /\ httpRequests' = Append(httpRequests,
       [HttpRequest("/sse", "POST", sessionId, body) EXCEPT !.pc = "reading"])
  /\ UNCHANGED <<startVars, watchdogVars, options, config, connections, requests, uuids,
                 transports, streamableSessions, sseSessions>>

\* handleSSE, POST branch, up to the return or the registration of the
\* body listeners (54-67): the session is looked up under x-session-id.
handleSSEPost(sessionId, body) ==
  LET h == HttpRequest("/sse", "POST", sessionId, body)
      known == \E id \in sessionId : id \in DOMAIN sseSessions
  IN /\ IF known
        THEN LET session == sseSessions[CHOOSE id \in sessionId : TRUE]
             IN httpRequests' = Append(httpRequests,
                  [h EXCEPT !.pc = "reading", !.found = TRUE,
                            !.conn = session.connection,
                            !.transport = session.transport])
        ELSE httpRequests' = Append(httpRequests,
               [h EXCEPT !.pc = "replied",
                         !.reply = {Reply(404, "Session not found")}])
     /\ UNCHANGED <<startVars, watchdogVars, options, config, connections, requests, uuids,
                    transports, streamableSessions, sseSessions>>

\* The 'end' listener of the POST branch (68-78): the body is parsed and the
\* parsed message is dropped; the reply depends on the parse alone.
ssePostEnd(i) ==
  /\ i \in 1..Len(httpRequests)
  /\ httpRequests[i].path = "/sse"
  /\ httpRequests[i].pc = "reading"
  /\ httpRequests' = [httpRequests EXCEPT
       ![i].pc = "replied",
       ![i].reply = IF JsonParses(httpRequests[i].body)
                    THEN {Reply(200, "{\"success\":true}")}
                    ELSE {Reply(400, "{\"error\":\"Invalid JSON\"}")}]
  /\ UNCHANGED <<startVars, watchdogVars, options, config, connections, requests, uuids,
                 transports, streamableSessions, sseSessions>>

\* transport.handleRequest (90, 108) for a POST body that does not parse as
\* a JSON-RPC message: the SDK transport answers 400 before it looks at the
\* session.
transportParseError(i) ==
  /\ i \in 1..Len(httpRequests)
  /\ httpRequests[i].pc = "forwarded"
  /\ httpRequests[i].method = "POST"
  /\ ~IsRpcMessage(httpRequests[i].body)
  /\ httpRequests' = [httpRequests EXCEPT ![i].pc = "replied",
                                          ![i].reply = {Reply(400, "Parse error")}]
  /\ UNCHANGED <<startVars, watchdogVars, options, config, connections, requests, uuids,
                 transports, streamableSessions, sseSessions>>

NextFrames ==
  \/ \E sessionId \in SessionHeaders, body \in Bodies :
       Len(httpRequests) < MaxHttpRequests /\ handleStreamable(sessionId, body)
  \/ \E i \in 1..MaxHttpRequests : streamableConnect(i)
  \/ \E i \in 1..MaxHttpRequests : transportInitialize(i)
  \/ \E i \in 1..MaxHttpRequests : transportRequest(i)
  \/ \E i \in 1..MaxHttpRequests : transportParseError(i)
  \/ Len(httpRequests) < MaxHttpRequests /\ handleSSE
  \/ \E i \in 1..MaxHttpRequests : sseConnect(i)
  \/ \E t \in 1..MaxHttpRequests : sseClose(t)
  \/ \E sessionId \in SessionHeaders, body \in Bodies :
       Len(httpRequests) < MaxHttpRequests /\ handleSSEPost(sessionId, body)
  \/ \E i \in 1..MaxHttpRequests : ssePostEnd(i)

SpecFrames == InitHttp /\ [][NextFrames]_vars

(***************************************************************************)
(* Server.setupExitWatchdog (src/src/server.ts 118-131).  handleExit is    *)
(* the listener of SIGINT, of SIGTERM and of the close of stdin.  It runs  *)
(* without interruption up to its await: the guard, the timer, and the     *)
(* call of close on every connection of _connectionList are one step.      *)
(***************************************************************************)
MaxSessions == 2

MaxSignals == 2

Signals == {"SIGINT", "SIGTERM", "stdin close"}

\* connection.close() as called at line 124: its promise is pending; armed
\* is the number of fallback timers armed when the call was made.
NewClose(c, armed) == [conn |-> c, armed |-> armed, state |-> "pending"]

\* Faulty variant of armTimer: the setTimeout line is missing.
armTimerNever(timers) == timers

\* setTimeout(() => process.exit(0), 15000) (123).
armTimer(timers) == timers + 1

\* Faulty variant of ShutdownBody: close is called only on the connections
\* that are not closed yet.
ShutdownBodyOpenOnly ==
  LET open == SelectSeq([c \in 1..Len(connections) |-> c],
                        LAMBDA c : connections[c].state \notin {"closed", "failed"})
  IN /\ isExiting' = TRUE
     /\ fallbackTimers' = armTimer(fallbackTimers)
     /\ closes' = closes \o [i \in 1..Len(open) |->
                               NewClose(open[i], armTimer(fallbackTimers))]
     /\ shutdowns' = Append(shutdowns,
          [first |-> Len(closes) + 1, last |-> Len(closes) + Len(open),
           pc |-> "awaiting"])

\* Lines 122-124: the guard is set, the timer is armed, close is called on
\* every connection of the list and Promise.all awaits the calls.
ShutdownBody ==
  /\ isExiting' = TRUE
  /\ fallbackTimers' = armTimer(fallbackTimers)
  /\ closes' = closes \o [c \in 1..Len(connections) |->
                            NewClose(c, armTimer(fallbackTimers))]
  /\ shutdowns' = Append(shutdowns,
       [first |-> Len(closes) + 1, last |-> Len(closes) + Len(connections),
        pc |-> "awaiting"])

\* Faulty variant of handleExit: the guard is not tested.
handleExitNoGuard(signal) ==
  /\ Running
  /\ signals' = Append(signals, signal)
  /\ ShutdownBody
  /\ UNCHANGED <<timerFired, exitCode>>
  /\ UNCHANGED dispatchVars
  /\ UNCHANGED <<httpVars, startVars>>

\* Faulty variant of handleExit: a repeated signal closes the connections
\* that were made since the shutdown began.
handleExitRescans(signal) ==
  /\ Running
  /\ signals' = Append(signals, signal)
  /\ IF isExiting
     THEN /\ closes' = closes \o [i \in 1..(Len(connections) - Len(closes)) |->
                                    NewClose(Len(closes) + i, fallbackTimers)]
          /\ UNCHANGED <<isExiting, fallbackTimers, shutdowns>>
     ELSE ShutdownBody
  /\ UNCHANGED <<timerFired, exitCode>>
  /\ UNCHANGED dispatchVars
  /\ UNCHANGED <<httpVars, startVars>>

\* handleExit up to its await (120-124).
handleExit(signal) ==
  /\ Running
  /\ signals' = Append(signals, signal)
  /\ IF isExiting
     THEN UNCHANGED <<isExiting, fallbackTimers, closes, shutdowns>>
     ELSE ShutdownBody
  /\ UNCHANGED <<timerFired, exitCode>>
  /\ UNCHANGED dispatchVars
  /\ UNCHANGED <<httpVars, startVars>>

\* The promise of a close call settles (21-24): server.close() resolved,
\* which leaves the protocol server disconnected, or it rejected.  A call
\* may also never settle.
closeSettles(k, outcome) ==
  /\ Running
  /\ k \in 1..Len(closes)
  /\ closes[k].state = "pending"
  /\ closes' = [closes EXCEPT ![k].state = outcome]
  /\ connections' = IF outcome = "resolved"
                    THEN [connections EXCEPT ![closes[k].conn].state = "closed"]
                    ELSE connections
  /\ UNCHANGED <<signals, isExiting, fallbackTimers, timerFired, shutdowns, exitCode>>
  /\ UNCHANGED <<options, config, requests>>
  /\ UNCHANGED <<httpVars, startVars>>

ClosesOf(s) == shutdowns[s].first..shutdowns[s].last

\* handleExit after its await (124-125): Promise.all rejects as soon as one
\* close has rejected, and then handleExit's own promise rejects with
\* nobody to handle it; it resolves when every close has resolved, and then
\* the process exits.
shutdownResumes(s) ==
  /\ Running
  /\ s \in 1..Len(shutdowns)
  /\ shutdowns[s].pc = "awaiting"
  /\ IF \E k \in ClosesOf(s) : closes[k].state = "rejected"
     THEN /\ shutdowns' = [shutdowns EXCEPT ![s].pc = "rejected"]
          /\ UNCHANGED exitCode
     ELSE /\ \A k \in ClosesOf(s) : closes[k].state = "resolved"
          /\ shutdowns' = [shutdowns EXCEPT ![s].pc = "exited"]
          /\ exitCode' = {0}
  /\ UNCHANGED <<signals, isExiting, fallbackTimers, timerFired, closes>>
  /\ UNCHANGED dispatchVars
  /\ UNCHANGED <<httpVars, startVars>>

\* What the runtime does with the unhandled rejection of handleExit: it
\* ends the process with code 1, or it prints a warning and goes on,
\* depending on its version and its --unhandled-rejections mode.
unhandledRejection(s, mode) ==
  /\ Running
  /\ s \in 1..Len(shutdowns)
  /\ shutdowns[s].pc = "rejected"
  /\ IF mode = "throw"
     THEN /\ shutdowns' = [shutdowns EXCEPT ![s].pc = "crashed"]
          /\ exitCode' = {1}
     ELSE /\ shutdowns' = [shutdowns EXCEPT ![s].pc = "warned"]
          /\ UNCHANGED exitCode
  /\ UNCHANGED <<signals, isExiting, fallbackTimers, timerFired, closes>>
  /\ UNCHANGED dispatchVars
  /\ UNCHANGED <<httpVars, startVars>>

\* The callback of the fallback timer (123).
timerFires ==
  /\ Running
  /\ fallbackTimers > 0
  /\ timerFired' = TRUE
  /\ exitCode' = {0}
  /\ UNCHANGED <<signals, isExiting, fallbackTimers, closes, shutdowns>>
  /\ UNCHANGED dispatchVars
  /\ UNCHANGED <<httpVars, startVars>>

InitWatchdog ==
  /\ options \in ConcOptionInputs
  /\ config = parseConfig(options)
  /\ connections = <<>>
  /\ requests = <<>>
  /\ HttpIdle
  /\ WatchdogIdle
  /\ NotStarted

NextWatchdog ==
  \/ Running /\ Len(connections) < MaxSessions /\ createConnection
  \/ \E c \in 1..MaxSessions : Running /\ connectResolves(c)
  \/ \E signal \in Signals : Len(signals) < MaxSignals /\ handleExit(signal)
  \/ \E k \in 1..(MaxSessions * MaxSignals), outcome \in {"resolved", "rejected"} :
       closeSettles(k, outcome)
  \/ \E s \in 1..MaxSignals : shutdownResumes(s)
  \/ \E s \in 1..MaxSignals, mode \in {"throw", "warn"} : unhandledRejection(s, mode)
  \/ timerFires

(***************************************************************************)
(* The connection list over the life of a Server (src/src/server.ts 27-33, *)
(* 112-126): connections are made before and after the shutdown begins,    *)
(* their connects resolve or reject, and their transports close on their   *)
(* own.                                                                    *)
(***************************************************************************)
\* await server.connect(transport) rejects (114): createConnection throws
\* after the push, and the Connection stays on the list.
connectRejects(c) ==
  /\ c \in 1..Len(connections)
  /\ connections[c].state = "connecting"
  /\ connections' = [connections EXCEPT ![c].state = "failed"]
  /\ UNCHANGED <<startVars, watchdogVars, options, config, requests>>
  /\ UNCHANGED httpVars

\* The transport of a connected connection closes (the peer went away):
\* the protocol server is disconnected; the Server is not told.
transportCloses(c) ==
  /\ Connected(c)
  /\ connections' = [connections EXCEPT ![c].state = "closed"]
  /\ UNCHANGED <<startVars, watchdogVars, options, config, requests>>
  /\ UNCHANGED httpVars

NextShutdown ==
  \/ Running /\ Len(connections) < MaxSessions /\ createConnection
  \/ \E c \in 1..MaxSessions : Running /\ connectResolves(c)
  \/ \E c \in 1..MaxSessions : Running /\ connectRejects(c)
  \/ \E c \in 1..MaxSessions : Running /\ transportCloses(c)
  \/ \E signal \in {"SIGINT", "SIGTERM"} : Len(signals) < MaxSignals /\ handleExit(signal)
  \/ \E k \in 1..MaxSessions, outcome \in {"resolved", "rejected"} :
       closeSettles(k, outcome)
  \/ \E s \in 1..MaxSignals : shutdownResumes(s)
  \/ \E s \in 1..MaxSignals, mode \in {"throw", "warn"} : unhandledRejection(s, mode)
  \/ timerFires

SpecShutdown == InitWatchdog /\ [][NextShutdown]_vars

(***************************************************************************)
(* The 'request' listener of the HTTP server (src/unnamed/part_002         *)
(* 115-140): the request target is parsed against the Host header, an      *)
(* OPTIONS request is answered before any routing, and the pathname        *)
(* selects the handler.  new URL is the WHATWG parser; what is modelled of *)
(* it is what an origin-form target needs: a base without a host and a     *)
(* target with an empty authority do not parse, the pathname ends at the   *)
(* query or the fragment.  Dot segments and percent-encoding are not       *)
(* modelled, and no target below contains them.                            *)
(***************************************************************************)
StartsWith(s, prefix) ==
  Len(s) >= Len(prefix) /\ SubSeq(s, 1, Len(prefix)) = prefix

\* The position of the first character of s at or after i that is in
\* chars, Len(s) + 1 when there is none.
RECURSIVE Find(_, _, _)
Find(s, chars, i) ==
  IF i > Len(s) THEN i
  ELSE IF SubSeq(s, i, i) \in chars THEN i
  ELSE Find(s, chars, i + 1)

\* The part of a request target before its query and fragment.
RawPath(target) == SubSeq(target, 1, Find(target, {"?", "#"}, 1) - 1)

\* new URL(req.url, `http://${req.headers.host}`) (116): {} when the
\* constructor throws, else the URL with its pathname.  A target that
\* begins with two slashes is scheme-relative: its first segment is the
\* authority.
URL(target, host) ==
  IF host = "" \/ Find(host, {" "}, 1) <= Len(host)
  THEN {}
  ELSE IF StartsWith(target, "//")
  THEN LET end == Find(target, {"/", "?", "#"}, 3)
           rest == RawPath(SubSeq(target, end, Len(target)))
       IN IF end = 3 THEN {}
          ELSE {[pathname |-> IF rest = "" THEN "/" ELSE rest]}
  ELSE {[pathname |-> RawPath(target)]}

\* The routing chain (129-139).
Route(pathname) ==
  IF pathname = "/sse" \/ StartsWith(pathname, "/sse/") THEN "handleSSE"
  ELSE IF pathname = "/mcp" THEN "handleStreamable"
  ELSE IF pathname = "/health" THEN "health"
  ELSE "notFound"

\* JSON.stringify({ status: "healthy" }).
HealthyBody == "{\"status\":\"healthy\"}"

\* The listener for one request.  When new URL throws, the listener's
\* promise rejects and nothing handles it: no reply is written, and the
\* process ends with code 1 unless it runs with unhandled rejections set to
\* warn.  handleSSE answers GET and POST only: a request with another
\* method is left without a reply.
request(method, target, host, sessionId, body, mode) ==
  LET url == URL(target, host)
      pathname == (CHOOSE u \in url : TRUE).pathname
      h == [HttpRequest(target, method, sessionId, body) EXCEPT !.host = host]
      answered(reply) ==
        /\ httpRequests' = Append(httpRequests,
             [h EXCEPT !.path = pathname, !.pc = "replied", !.reply = {reply}])
        /\ UNCHANGED <<startVars, watchdogVars, options, config, connections,
                       requests, uuids, transports, streamableSessions, sseSessions>>
  IN IF url = {}
     THEN /\ httpRequests' = Append(httpRequests, [h EXCEPT !.pc = "threw"])
          /\ exitCode' = IF mode = "throw" THEN {1} ELSE exitCode
          /\ UNCHANGED <<signals, isExiting, fallbackTimers, timerFired, closes,
                         shutdowns>>
          /\ UNCHANGED <<startVars, options, config, connections, requests, uuids,
                         transports, streamableSessions, sseSessions>>
     ELSE IF method = "OPTIONS" THEN answered(Reply(200, ""))
     ELSE IF Route(pathname) = "handleSSE"
     THEN IF method = "GET" THEN handleSSE
          ELSE IF method = "POST" THEN handleSSEPost(sessionId, body)
          ELSE /\ httpRequests' = Append(httpRequests,
                    [h EXCEPT !.path = pathname, !.pc = "returned"])
               /\ UNCHANGED <<startVars, watchdogVars, options, config, connections,
                              requests, uuids, transports, streamableSessions,
                              sseSessions>>
     ELSE IF Route(pathname) = "handleStreamable"
     THEN streamableRequest(method, sessionId, body)
     ELSE IF Route(pathname) = "health" THEN answered(Reply(200, HealthyBody))
     ELSE answered(Reply(404, "Not Found"))

\* Request inputs: the methods, the targets outside the two session
\* endpoints, and the Host headers: a usual one and an empty one.
Methods == {"GET", "POST", "OPTIONS"}

Targets == {"/health", "/health?probe=1", "/healthz", "/mcp/", "/", "//"}

Hosts == {"localhost:8000", ""}

\* Requests of every kind arrive while sessions of both variants are being
\* opened.
NextRouter ==
  \/ \E method \in Methods, target \in Targets, host \in Hosts,
        sessionId \in {{}} \cup IssuedHeaders, mode \in {"throw", "warn"} :
       /\ Running /\ Len(httpRequests) < MaxHttpRequests
       /\ request(method, target, host, sessionId, "", mode)
  \/ \E target \in {"/sse", "/sse/events"} :
       /\ Running /\ Len(httpRequests) < MaxHttpRequests
       /\ request("GET", target, "localhost:8000", {}, "", "throw")
  \/ /\ Running /\ Len(httpRequests) < MaxHttpRequests
     /\ request("POST", "/mcp", "localhost:8000", {}, "initialize", "throw")
  \/ \E i \in 1..MaxHttpRequests : Running /\ sseConnect(i)
  \/ \E i \in 1..MaxHttpRequests : Running /\ streamableConnect(i)
  \/ \E i \in 1..MaxHttpRequests : Running /\ transportInitialize(i)

SpecRouter == InitHttp /\ [][NextRouter]_vars

\* Requests with a usual Host header, of every method the listener tells
\* apart and one it does not, to the three endpoints and to another path;
\* the handlers then run to their replies.
AllMethods == {"GET", "POST", "OPTIONS", "DELETE"}

Endpoints == {"/sse", "/mcp", "/health", "/healthz"}

NextMethods ==
  \/ \E method \in AllMethods, target \in Endpoints,
        sessionId \in {{}} \cup IssuedHeaders :
       /\ Running /\ Len(httpRequests) < MaxHttpRequests
       /\ request(method, target, "localhost:8000", sessionId,
                  IF method = "POST" THEN "initialize" ELSE "", "throw")
  \/ \E i \in 1..MaxHttpRequests : sseConnect(i)
  \/ \E i \in 1..MaxHttpRequests : ssePostEnd(i)
  \/ \E i \in 1..MaxHttpRequests : streamableConnect(i)
  \/ \E i \in 1..MaxHttpRequests : transportInitialize(i)
  \/ \E i \in 1..MaxHttpRequests : transportDelete(i)

SpecMethods == InitHttp /\ [][NextMethods]_vars

(***************************************************************************)
(* Several streamable sessions with a request in flight.  A tools/list or  *)
(* tools/call message that carries the identifier of a stored session is   *)
(* handed by the session's transport to the handlers of the session's      *)
(* connection; the steps of the transport in between are left out.         *)
(***************************************************************************)
LiveSession(c) ==
  \E k \in DOMAIN streamableSessions :
    /\ streamableSessions[k].connection = c
    /\ ~transports[streamableSessions[k].transport].closed

SessionNameInputs == {"browser_navigate", "browser_get_text", "browser_screenshot"}

NextSessions ==
  \/ Len(httpRequests) < MaxHttpRequests /\ handleStreamable({}, "initialize")
  \/ \E sessionId \in IssuedHeaders :
       Len(httpRequests) < MaxHttpRequests /\ streamableRequest("DELETE", sessionId, "")
  \/ \E i \in 1..MaxHttpRequests : streamableConnect(i)
  \/ \E i \in 1..MaxHttpRequests : transportInitialize(i)
  \/ \E i \in 1..MaxHttpRequests : transportDelete(i)
  \/ \E c \in 1..MaxHttpRequests :
       Len(requests) < MaxRequests /\ LiveSession(c) /\ listTools(c)
  \/ \E c \in 1..MaxHttpRequests, name \in SessionNameInputs, arguments \in ConcArgInputs :
       Len(requests) < MaxRequests /\ LiveSession(c) /\ callTool(c, name, arguments)
  \/ \E r \in 1..MaxRequests : handleSettles(r)
  \/ \E r \in 1..MaxRequests : actionSettles(r)

SpecSessions == InitConc /\ [][NextSessions]_vars

(***************************************************************************)
(* Several connections of one Server with list-tools and call-tool         *)
(* requests, over every option object.                                     *)
(***************************************************************************)
NextListing ==
  \/ Len(connections) < MaxSessions /\ createConnection
  \/ \E c \in 1..MaxSessions : connectResolves(c)
  \/ \E c \in 1..MaxSessions : Len(requests) < MaxInFlight /\ listTools(c)
  \/ \E c \in 1..MaxSessions :
       Len(requests) < MaxInFlight /\ callTool(c, "browser_get_text", {FullArgs})
  \/ \E r \in 1..MaxInFlight : handleSettles(r)
  \/ \E r \in 1..MaxInFlight : actionSettles(r)

SpecListing == Init /\ [][NextListing]_vars

(***************************************************************************)
(* The start of the process (src/src/index.ts 19-58, src/unnamed/part_001  *)
(* 14-49): the arguments are parsed, the transport is chosen, the Server   *)
(* is made, and with the STDIO transport its one connection is created.    *)
(* What the HTTP transport of this entry point does after its start is not *)
(* in the source and is not modelled.                                      *)
(***************************************************************************)
MaxArgs == 3

Tokens == {"--stdio", "--port", "8000", "0", "--vision", "--help"}

ArgvInputs == UNION {[1..n -> Tokens] : n \in 0..MaxArgs}

\* process.env.PORT: unset, set to the empty string, set to a number.
EnvInputs == {{}, {""}, {"3000"}}

\* Array.prototype.includes and indexOf; 0 stands for indexOf's -1.
includes(args, x) == \E i \in 1..Len(args) : args[i] = x

indexOf(args, x) ==
  IF includes(args, x)
  THEN CHOOSE i \in 1..Len(args) :
         args[i] = x /\ \A j \in 1..(i - 1) : args[j] # x
  ELSE 0

\* parseInt of a string without leading blanks: an optional sign and the
\* longest run of decimal digits; NaN when there is no digit.
DigitChars == "0123456789"

IsDigit(c) == \E i \in 1..10 : SubSeq(DigitChars, i, i) = c

DigitValue(c) == (CHOOSE i \in 1..10 : SubSeq(DigitChars, i, i) = c) - 1

RECURSIVE ParseDigits(_, _, _)
ParseDigits(s, i, acc) ==
  IF i > Len(s) \/ ~IsDigit(SubSeq(s, i, i)) THEN acc
  ELSE ParseDigits(s, i + 1, acc * 10 + DigitValue(SubSeq(s, i, i)))

NaN == [nan |-> TRUE, value |-> 0]

parseInt(s) ==
  LET negative == StartsWith(s, "-")
      start == IF negative \/ StartsWith(s, "+") THEN 2 ELSE 1
  IN IF start > Len(s) \/ ~IsDigit(SubSeq(s, start, start)) THEN NaN
     ELSE [nan |-> FALSE,
           value |-> (IF negative THEN -1 ELSE 1) * ParseDigits(s, start, 0)]

\* The truthiness of an optional number: undefined, NaN and 0 are falsy.
Truthy(number) == \E n \in number : ~n.nan /\ n.value # 0

\* parseArgs (part_001 14-49): {} when --help made the process exit, else
\* the options.  The value of --port and of --host is the argument after
\* the first occurrence of the flag, if there is one and it is not empty.
parseArgs(args) ==
  IF includes(args, "--help") \/ includes(args, "-h") THEN {}
  ELSE LET portIndex == indexOf(args, "--port")
           hostIndex == indexOf(args, "--host")
           valueAt(index) == index # 0 /\ index + 1 <= Len(args) /\ args[index + 1] # ""
       IN {[port |-> IF valueAt(portIndex) THEN {parseInt(args[portIndex + 1])} ELSE {},
            host |-> IF valueAt(hostIndex) THEN {args[hostIndex + 1]} ELSE {},
            stdio |-> includes(args, "--stdio"),
            vision |-> includes(args, "--vision"),
            headless |-> ~includes(args, "--headed")]}

\* const shouldUseHttp = cliOptions.port || (process.env.PORT && !cliOptions.stdio)
\* (index.ts 25).
shouldUseHttp(cli, env) == Truthy(cli.port) \/ (env \notin {{}, {""}} /\ ~cli.stdio)

\* fullConfig (index.ts 29-37); its port is not read by any handler and is
\* left out.
fullConfig(cli) ==
  [browser |-> [browser |-> "chromium", headless |-> cli.headless, context |-> "isolated"],
   vision |-> cli.vision,
   capabilities |-> {}]

\* main (index.ts 19-50) up to the start of the chosen transport.
main ==
  /\ Running
  /\ cliOptions = {}
  /\ transportMode = {}
  /\ LET parsed == parseArgs(argv)
     IN IF parsed = {}
        THEN /\ exitCode' = {0}
             /\ UNCHANGED <<cliOptions, transportMode, config>>
        ELSE LET cli == CHOOSE o \in parsed : TRUE
             IN /\ cliOptions' = parsed
                /\ config' = fullConfig(cli)
                /\ transportMode' =
                     {IF shouldUseHttp(cli, envPort) THEN "http" ELSE "stdio"}
                /\ UNCHANGED exitCode
  /\ UNCHANGED <<argv, envPort, options, connections, requests>>
  /\ UNCHANGED <<signals, isExiting, fallbackTimers, timerFired, closes, shutdowns>>
  /\ UNCHANGED httpVars

\* runStdioTransport (server.ts 140-142) runs once main chose STDIO.
runStdioTransport == transportMode = {"stdio"} /\ createConnection

InitStart ==
  /\ options \in {o \in OptionInputs : o.vision = {} /\ o.capabilities = {}}
  /\ config = parseConfig(options)
  /\ connections = <<>>
  /\ requests = <<>>
  /\ HttpIdle
  /\ WatchdogIdle
  /\ argv \in ArgvInputs
  /\ envPort \in EnvInputs
  /\ cliOptions = {}
  /\ transportMode = {}

NextStart ==
  \/ main
  \/ Len(connections) < MaxConnections /\ runStdioTransport
  \/ \E c \in 1..MaxConnections : connectResolves(c)
  \/ \E c \in 1..MaxConnections : Len(requests) < MaxRequests /\ listTools(c)

SpecStart == InitStart /\ [][NextStart]_vars

\* A timer that was armed fires unless the process has exited before.
SpecWatchdog == InitWatchdog /\ [][NextWatchdog]_vars /\ WF_vars(timerFires)

(***************************************************************************)
(* Vocabulary of the properties.                                           *)
(***************************************************************************)
CallRequests == {r \in 1..Len(requests) : requests[r].method = "tools/call"}

DoneCalls == {r \in CallRequests : requests[r].pc = "done"}

IsError(res) == "content" \in DOMAIN res /\ "isError" \in DOMAIN res /\ res.isError = TRUE

IsSuccess(res) == "content" \in DOMAIN res /\ Len(res.content) > 0 /\ "isError" \notin DOMAIN res

VisibleNames(c) == Range(MapName(connections[c].tools))

RegistryNames == Range(MapName(allTools(config)))

\* The catalogue entry of a name, whatever the session may see.
CatalogueTool(name) == CHOOSE t \in Range(snapshotTools) : t.schema.name = name

ValidCall(req) ==
  /\ req.name \in Range(MapName(snapshotTools))
  /\ SchemaAccepts(CatalogueTool(req.name), req.arguments)

InvalidCall(req) ==
  /\ req.name \in Range(MapName(snapshotTools))
  /\ ~SchemaAccepts(CatalogueTool(req.name), req.arguments)

(***************************************************************************)
(* C1.  A call-tool request whose name is not in the session's visible     *)
(* subset is answered at once, without running any executor, with          *)
(* isError = true and the single text item 'Tool "<name>" not found'.      *)
(* The result is a function of the name alone, so a name hidden by the     *)
(* capability filter and a name of no tool get the same shape.             *)
(***************************************************************************)
C1_NotFoundShape ==
  \A r \in CallRequests :
    LET req == requests[r]
    IN req.name \notin VisibleNames(req.conn) =>
         /\ req.pc = "done"
         /\ req.handleRuns = 0
         /\ req.results =
              << [content |-> << [type |-> "text",
                                  text |-> "Tool \"" \o req.name \o "\" not found"] >>,
                  isError |-> TRUE] >>

\* A tool of the active set, hidden by the allow-list, was called.
C1_Witness ==
  \E r \in DoneCalls :
    /\ requests[r].name \in RegistryNames
    /\ requests[r].name \notin VisibleNames(requests[r].conn)
    /\ Len(requests[r].results) = 1

(***************************************************************************)
(* C2.  A call-tool request for a visible tool whose arguments violate the *)
(* tool's input schema always returns an error result (isError = true),    *)
(* never a success result.  (The claim adds that the executor is not run   *)
(* on such arguments; handleRuns shows that it is run on all of them.)     *)
(***************************************************************************)
C2_InvalidArgumentsRejected ==
  \A r \in DoneCalls :
    LET req == requests[r]
    IN (req.name \in VisibleNames(req.conn) /\ InvalidCall(req)) =>
         /\ Len(req.results) = 1
         /\ IsError(req.results[1])

(***************************************************************************)
(* C4.  With an allow-list configured, a tool of the active tool set is in *)
(* a session's visible subset iff its tag is 'core' or is in the list.     *)
(***************************************************************************)
C4_FilterIffCoreOrGranted ==
  \A c \in 1..Len(connections) :
    \A caps \in config.capabilities :
      \A tool \in Range(allTools(config)) :
        (tool \in Range(connections[c].tools))
          <=> (tool.capability = "core" \/ tool.capability \in caps)

\* A session under the allow-list {screenshot}: the screenshot tool and the
\* core tools are visible, the tab tools are not.
C4_Witness ==
  \E c \in 1..Len(connections) :
    /\ config.capabilities = {{"screenshot"}}
    /\ "browser_screenshot" \in VisibleNames(c)
    /\ "browser_navigate" \in VisibleNames(c)
    /\ "browser_new_tab" \notin VisibleNames(c)

(***************************************************************************)
(* C5.  parseConfig hands the allow-list on as it got it; when it is       *)
(* absent a session sees the whole active tool set, when it is empty       *)
(* exactly the tools tagged 'core'; the two option objects give different  *)
(* visible subsets.                                                        *)
(***************************************************************************)
C5_AbsentIsNotEmpty ==
  /\ config.capabilities = options.capabilities
  /\ \A c \in 1..Len(connections) :
       /\ options.capabilities = {} => connections[c].tools = allTools(config)
       /\ options.capabilities = {{}} =>
            connections[c].tools =
              SelectSeq(allTools(config), LAMBDA t : t.capability = "core")
  /\ \A o \in OptionInputs :
       o.capabilities = {} =>
         filterTools(parseConfig(o)) #
           filterTools(parseConfig([o EXCEPT !.capabilities = {{}}]))

\* A session created under an empty allow-list.
C5_Witness ==
  \E c \in 1..Len(connections) :
    /\ options.capabilities = {{}}
    /\ Len(connections[c].tools) < Len(allTools(config))
    /\ "browser_navigate" \in VisibleNames(c)

(***************************************************************************)
(* C6.  The names list-tools returns are the names call-tool succeeds for: *)
(* a call of a listed name with schema-valid arguments returns a success   *)
(* result, a call of an unlisted name returns an error result.             *)
(***************************************************************************)
ListedNames(c) ==
  LET listed == ListToolsResult(connections[c].tools).tools
  IN {listed[i].name : i \in DOMAIN listed}

C6_ListedIffCallable ==
  \A r \in DoneCalls :
    LET req == requests[r]
    IN /\ Len(req.results) = 1
       /\ (req.name \in ListedNames(req.conn) /\ ValidCall(req))
            => IsSuccess(req.results[1])
       /\ req.name \notin ListedNames(req.conn) => IsError(req.results[1])

\* A listed name was called with valid arguments and answered, in a session
\* whose list leaves out a tool of the catalogue.
C6_Witness ==
  \E r \in DoneCalls :
    /\ requests[r].name \in ListedNames(requests[r].conn)
    /\ ValidCall(requests[r])
    /\ ListedNames(requests[r].conn) # RegistryNames

(***************************************************************************)
(* C8.  A call-tool request for a visible tool with arguments that satisfy *)
(* its input schema returns one success result: a non-empty content        *)
(* sequence and no isError marker.                                         *)
(***************************************************************************)
C8_ValidCallSucceeds ==
  \A r \in DoneCalls :
    LET req == requests[r]
    IN (req.name \in VisibleNames(req.conn) /\ ValidCall(req)) =>
         /\ req.results # <<>>
         /\ "isError" \notin DOMAIN req.results[1]
         /\ Len(req.results[1].content) >= 1

\* A tool without an action was called with valid arguments.
C8_Witness ==
  \E r \in DoneCalls :
    /\ requests[r].name = "browser_new_tab"
    /\ requests[r].name \in VisibleNames(requests[r].conn)
    /\ requests[r].arguments = {{}}
    /\ requests[r].handleRuns = 1

(***************************************************************************)
(* C7.  When a tool's executor throws during a call-tool request, the      *)
(* request is answered with one error result (isError = true) whose text   *)
(* is the fault's name and message; the connection stays connected, and a  *)
(* request that arrives afterwards is looked up and executed as usual.     *)
(***************************************************************************)
Faulted(req) ==
  /\ findTool(connections[req.conn].tools, req.name) # {}
  /\ handle(ToolOf(req), req.arguments).threw

C7_FaultBecomesErrorResult ==
  \A r \in DoneCalls :
    LET req == requests[r]
    IN Faulted(req) =>
         LET error == handle(ToolOf(req), req.arguments).error
         IN /\ req.results =
                 << [content |-> << [type |-> "text",
                                     text |-> error.name \o ": " \o error.message] >>,
                     isError |-> TRUE] >>
            /\ connections[req.conn].state = "connected"
            /\ \A r2 \in CallRequests :
                 (r2 > r /\ requests[r2].conn = req.conn) =>
                   requests[r2].handleRuns =
                     (IF requests[r2].name \in VisibleNames(req.conn) THEN 1 ELSE 0)

\* After a faulted request was answered, a second request arrived on the
\* same connection and was answered with a success result.
C7_Witness ==
  \E r1, r2 \in DoneCalls :
    /\ r1 < r2
    /\ requests[r1].conn = requests[r2].conn
    /\ Faulted(requests[r1])
    /\ requests[r2].arrivedAfter >= 1
    /\ Len(requests[r2].results) = 1
    /\ IsSuccess(requests[r2].results[1])

(***************************************************************************)
(* C9.  Every call-tool request gets exactly one result once its handler   *)
(* has finished and none before, whatever the path (tool not found,        *)
(* executor success, executor fault) and whatever other requests are in    *)
(* flight; a result is a success or an error, never both and never         *)
(* neither.                                                                *)
(***************************************************************************)
C9_ExactlyOneResult ==
  \A r \in CallRequests :
    LET req == requests[r]
    IN /\ Len(req.results) = (IF req.pc = "done" THEN 1 ELSE 0)
       /\ \A i \in 1..Len(req.results) :
            IsSuccess(req.results[i]) # IsError(req.results[i])

\* Two requests of one connection in flight at once, the later one answered
\* first.
C9_Witness ==
  \E r1, r2 \in CallRequests :
    /\ r1 < r2
    /\ requests[r1].conn = requests[r2].conn
    /\ requests[r1].pc # "done"
    /\ requests[r2].pc = "done"
    /\ requests[r2].handleRuns = 1
    /\ Len(requests[r2].results) = 1

(***************************************************************************)
(* C3.  A streamable-HTTP request whose session header names no stored     *)
(* session is rejected with 'Session not found' before any dispatch: no    *)
(* connection and no transport is made for it and the store is unchanged.  *)
(***************************************************************************)
UnknownSession(h) == h.path = "/mcp" /\ h.sessionId # {} /\ ~h.found

C3_UnknownSessionRejected ==
  \A i \in 1..Len(httpRequests) :
    LET h == httpRequests[i]
    IN UnknownSession(h) =>
         /\ h.conn = 0
         /\ h.transport = 0
         /\ \A k \in DOMAIN streamableSessions :
              streamableSessions[k].connection # h.conn
         /\ h.pc = "replied" => h.reply = {Reply(404, "Session not found")}

(***************************************************************************)
(* C10.  Once the close or the error callback of an event-stream transport *)
(* has fired, the session's identifier is not a key of the event-stream    *)
(* session store, in that state and in every later one.                    *)
(***************************************************************************)
C10_LostChannelRemovesSession ==
  \A t \in 1..Len(transports) :
    (transports[t].kind = "sse" /\ (transports[t].closed \/ transports[t].errored))
      => transports[t].key \notin DOMAIN sseSessions

\* One event-stream session lost its channel and is gone while another one
\* is still stored.
C10_Witness ==
  \E t \in 1..Len(transports) :
    /\ transports[t].kind = "sse"
    /\ transports[t].closed
    /\ transports[t].key \notin DOMAIN sseSessions
    /\ DOMAIN sseSessions # {}


(***************************************************************************)
(* C11.  A streamable session is destroyed by a termination request or by  *)
(* its transport closing: once the transport has closed, its identifier is *)
(* not a key of the streamable session store, and a request that arrives   *)
(* later with that identifier is not matched to a stored session.          *)
(***************************************************************************)
ClosedStreamable(t) ==
  /\ t \in 1..Len(transports)
  /\ transports[t].kind = "streamable"
  /\ transports[t].closed

C11_TerminatedSessionDestroyed ==
  /\ [](\A t \in 1..Len(transports) :
          ClosedStreamable(t) =>
            \A id \in transports[t].sessionId : id \notin DOMAIN streamableSessions)
  /\ [][\A t \in 1..Len(transports) :
          ClosedStreamable(t) =>
            \A i \in (Len(httpRequests) + 1)..Len(httpRequests') :
              (httpRequests'[i].path = "/mcp"
                 /\ httpRequests'[i].sessionId # {}
                 /\ httpRequests'[i].sessionId = transports[t].sessionId)
                => ~httpRequests'[i].found]_vars


(***************************************************************************)
(* C12.  A companion POST of the event-stream variant whose identifier     *)
(* names a session with an open push channel is accepted and its message   *)
(* is delivered to the session's transport: when the POST has been         *)
(* answered and its body was a tools/list request, that request has been   *)
(* dispatched on the session's connection and answered.                    *)
(***************************************************************************)
CompanionPost(h) == h.path = "/sse" /\ h.method = "POST" /\ h.found

C12_CompanionPostDelivered ==
  \A i \in 1..Len(httpRequests) :
    LET h == httpRequests[i]
    IN (CompanionPost(h) /\ h.pc = "replied" /\ h.body = "tools/list"
          /\ ~transports[h.transport].closed) =>
         /\ \A rep \in h.reply : rep.status \in {200, 202}
         /\ \E r \in 1..Len(requests) :
              /\ requests[r].conn = h.conn
              /\ requests[r].method = "tools/list"
              /\ Len(requests[r].results) = 1

(***************************************************************************)
(* C16.  Both variants reject a frame that is not a valid RPC message, be  *)
(* it unparseable or JSON that is no Request, Notification or Response:    *)
(* the reply is an error, and the step that handles the frame leaves both  *)
(* session stores as they were.                                            *)
(***************************************************************************)
InvalidFrame(h) == h.method = "POST" /\ ~(JsonParses(h.body) /\ IsRpcMessage(h.body))

C16_InvalidFrameRejected ==
  /\ [](\A i \in 1..Len(httpRequests) :
          (InvalidFrame(httpRequests[i]) /\ httpRequests[i].pc = "replied") =>
            \A rep \in httpRequests[i].reply : rep.status >= 400)
  /\ [][\A i \in 1..Len(httpRequests') :
          (InvalidFrame(httpRequests'[i])
             /\ (i > Len(httpRequests) \/ httpRequests'[i] # httpRequests[i]))
            => /\ streamableSessions' = streamableSessions
               /\ sseSessions' = sseSessions]_vars


(***************************************************************************)
(* C13.  On a termination signal close is invoked on every live session,   *)
(* of either HTTP variant, and the process exits only after all the closes *)
(* have settled or the fallback timer has fired: when the process has      *)
(* exited, every stored session whose connection was still connected has   *)
(* had its close called, and no close is pending unless the timer fired.   *)
(***************************************************************************)
LiveSessions ==
  {streamableSessions[k].connection : k \in DOMAIN streamableSessions}
    \cup {sseSessions[k].connection : k \in DOMAIN sseSessions}

C13_AllSessionsClosedBeforeExit ==
  exitCode # {} =>
    /\ \A c \in LiveSessions :
         connections[c].state = "connected" =>
           \E k \in 1..Len(closes) : closes[k].conn = c
    /\ \/ \A k \in 1..Len(closes) : closes[k].state # "pending"
       \/ timerFired

(***************************************************************************)
(* C14.  Once the watchdog has handled a termination signal the process    *)
(* eventually exits, whether the closes resolve, reject or never settle;   *)
(* and the fallback timer is armed before any close is awaited.            *)
(***************************************************************************)
C14_ShutdownAlwaysExits ==
  /\ isExiting ~> (exitCode # {})
  /\ [](\A k \in 1..Len(closes) : closes[k].armed >= 1)

\* The process has exited through the timer while a close was still
\* pending, after another close had rejected.
C14_Witness ==
  /\ exitCode # {}
  /\ timerFired
  /\ \E k \in 1..Len(closes) : closes[k].state = "pending"
  /\ \E k \in 1..Len(closes) : closes[k].state = "rejected"

(***************************************************************************)
(* C15.  The shutdown is not re-entrant: whatever signals arrive, in any   *)
(* order and number, the shutdown body runs at most once, at most one      *)
(* fallback timer is armed, and the watchdog requests close at most once   *)
(* per connection.                                                         *)
(***************************************************************************)
C15_ShutdownRunsOnce ==
  /\ Len(shutdowns) <= 1
  /\ fallbackTimers <= 1
  /\ \A k1, k2 \in 1..Len(closes) : closes[k1].conn = closes[k2].conn => k1 = k2
  /\ (signals # <<>>) = isExiting

\* Two different signals have arrived while two connections were being
\* closed.
C15_Witness ==
  /\ Len(signals) >= 2
  /\ signals[1] # signals[2]
  /\ Len(closes) = 2
  /\ Len(shutdowns) = 1


(***************************************************************************)
(* C17.  A session leaves its store only when its transport has confirmed  *)
(* closure through the close callback: in every step that removes a key    *)
(* from a store, the transport of the removed session is closed.           *)
(***************************************************************************)
C17_RemovedOnlyAfterClose ==
  [][/\ \A k \in DOMAIN sseSessions \ DOMAIN sseSessions' :
          transports'[sseSessions[k].transport].closed
     /\ \A k \in DOMAIN streamableSessions \ DOMAIN streamableSessions' :
          transports'[streamableSessions[k].transport].closed]_vars

(***************************************************************************)
(* C18.  Terminating is idempotent: a disconnect signal (error or close)   *)
(* for a session that was removed already leaves the stores as they are,   *)
(* any disconnect signal leaves every other session as it is, and removing *)
(* an identifier that was never stored is no change.                       *)
(***************************************************************************)
C18_TerminateIdempotent ==
  /\ [](onclose(sseSessions, 0) = sseSessions /\ onerror(sseSessions, 0) = sseSessions)
  /\ [][\A t \in 1..Len(transports) :
          (transports[t].kind = "sse" /\ transports'[t] # transports[t]) =>
            /\ streamableSessions' = streamableSessions
            /\ \A k \in DOMAIN sseSessions \ {transports[t].key} :
                 k \in DOMAIN sseSessions' /\ sseSessions'[k] = sseSessions[k]
            /\ transports[t].key \notin DOMAIN sseSessions
                 => sseSessions' = sseSessions]_vars

\* A transport has signalled an error and then its close, its session is
\* gone and another session is still stored.
C18_Witness ==
  \E t \in 1..Len(transports) :
    /\ transports[t].kind = "sse"
    /\ transports[t].errored
    /\ transports[t].closed
    /\ transports[t].key \notin DOMAIN sseSessions
    /\ DOMAIN sseSessions # {}

(***************************************************************************)
(* C19.  A streamable handshake request without a session identifier       *)
(* always allocates a new session: it has a connection and a transport of  *)
(* its own before its message is handed to the transport, the session is   *)
(* stored under the identifier the reply carries, and two such requests,   *)
(* also when their handlers interleave, give two distinct sessions.        *)
(***************************************************************************)
Handshake(h) == h.path = "/mcp" /\ h.sessionId = {} /\ h.body = "initialize"

C19_HandshakeAllocatesSession ==
  \A i \in 1..Len(httpRequests) :
    LET h == httpRequests[i]
    IN Handshake(h) =>
         /\ h.conn # 0
         /\ h.pc \in {"forwarded", "replied"} =>
              /\ h.transport # 0
              /\ transports[h.transport].conn = h.conn
         /\ h.pc = "replied" =>
              \E id \in DOMAIN streamableSessions :
                /\ h.reply = {[status |-> 200, body |-> "InitializeResult",
                               sessionId |-> {id}]}
                /\ streamableSessions[id] =
                     [transport |-> h.transport, connection |-> h.conn]
         /\ \A j \in 1..Len(httpRequests) :
              (j # i /\ ~httpRequests[j].found) =>
                /\ httpRequests[j].conn # h.conn
                /\ h.transport # 0 => httpRequests[j].transport # h.transport
                /\ h.pc = "replied" => httpRequests[j].reply # h.reply

\* Two handshakes were answered, the later request connected first, and
\* both sessions are stored.
C19_Witness ==
  \E i, j \in 1..Len(httpRequests) :
    /\ i < j
    /\ Handshake(httpRequests[i]) /\ Handshake(httpRequests[j])
    /\ httpRequests[i].pc = "replied" /\ httpRequests[j].pc = "replied"
    /\ httpRequests[j].transport < httpRequests[i].transport
    /\ Cardinality(DOMAIN streamableSessions) = 2

(***************************************************************************)
(* C20.  A request that is no handshake and carries no session identifier  *)
(* is answered with a protocol error and allocates nothing: no connection  *)
(* and no transport is made for it.                                        *)
(***************************************************************************)
C20_NoIdentifierAllocatesNothing ==
  \A i \in 1..Len(httpRequests) :
    LET h == httpRequests[i]
    IN (h.method = "POST" /\ h.sessionId = {} /\ h.body = "tools/list") =>
         /\ h.conn = 0
         /\ h.transport = 0
         /\ h.pc = "replied" => \A rep \in h.reply : rep.status \in {400, 404}


(***************************************************************************)
(* C21.  One session's tool execution never observes or changes another    *)
(* session's state: the contexts of two connections are different objects, *)
(* an executor is given the context of its own connection, and a step of a *)
(* call-tool request of one session leaves the connection (context, tools, *)
(* protocol server) and the store entry of every other session unchanged.  *)
(***************************************************************************)
C21_SessionsIsolated ==
  /\ [](/\ \A c1, c2 \in 1..Len(connections) :
             c1 # c2 => connections[c1].context # connections[c2].context
        /\ \A r \in CallRequests :
             requests[r].context = connections[requests[r].conn].context)
  /\ [][\A r \in 1..Len(requests') :
          (requests'[r].method = "tools/call"
             /\ (r > Len(requests) \/ requests'[r] # requests[r])) =>
            \A b \in 1..Len(connections) :
              b # requests'[r].conn =>
                /\ connections'[b] = connections[b]
                /\ \A k \in DOMAIN streamableSessions :
                     streamableSessions[k].connection = b =>
                       /\ k \in DOMAIN streamableSessions'
                       /\ streamableSessions'[k] = streamableSessions[k]]_vars

\* Two sessions are stored and a call on one of them has faulted.
C21_Witness ==
  /\ Cardinality(DOMAIN streamableSessions) = 2
  /\ \E r \in DoneCalls :
       /\ Len(requests[r].results) = 1
       /\ IsError(requests[r].results[1])
       /\ requests[r].handleRuns = 1
       /\ \E b \in 1..Len(connections) : b # requests[r].conn /\ LiveSession(b)

(***************************************************************************)
(* C22.  Once a session's transport has been closed no tool execution goes *)
(* on for the session: a call-tool request of a closed connection runs no  *)
(* further executor step and gets no result.                               *)
(***************************************************************************)
C22_NoExecutionAfterClose ==
  [][\A r \in 1..Len(requests) :
       connections[requests[r].conn].state = "closed" =>
         requests'[r] = requests[r]]_vars

(***************************************************************************)
(* C23.  A session's visible tool subset is computed once, from the        *)
(* process-wide configuration, and never changes: all connections of one   *)
(* Server have the same subset, every list-tools response of a session has *)
(* the subset's descriptors in the subset's order, and list-tools runs no  *)
(* executor and changes nothing but the record of the request itself.      *)
(***************************************************************************)
ListRequests == {r \in 1..Len(requests) : requests[r].method = "tools/list"}

DescriptorOf(tool) ==
  [name |-> tool.schema.name, description |-> tool.schema.description,
   inputSchema |-> tool.schema.inputSchema]

C23_ToolSubsetFrozen ==
  /\ [](/\ \A c1, c2 \in 1..Len(connections) :
             connections[c1].tools = connections[c2].tools
        /\ \A r \in ListRequests :
             LET req == requests[r]
                 tools == connections[req.conn].tools
             IN /\ req.pc = "done" /\ req.handleRuns = 0 /\ req.actionRuns = 0
                /\ Len(req.results) = 1
                /\ DOMAIN req.results[1].tools = 1..Len(tools)
                /\ \A i \in 1..Len(tools) :
                     req.results[1].tools[i] = DescriptorOf(tools[i])
        /\ \A r1, r2 \in ListRequests :
             requests[r1].conn = requests[r2].conn =>
               requests[r1].results = requests[r2].results)
  /\ [][/\ \A c \in 1..Len(connections) : connections'[c].tools = connections[c].tools
        /\ (Len(requests') > Len(requests)
              /\ requests'[Len(requests')].method = "tools/list") =>
             /\ connections' = connections
             /\ config' = config
             /\ SubSeq(requests', 1, Len(requests)) = requests]_vars

\* Two list-tools requests of one connection were answered, a call-tool
\* request in between or around them, on a Server with two connections
\* whose allow-list hides a part of the tool set.
C23_Witness ==
  /\ Len(connections) = 2
  /\ Len(connections[1].tools) < Len(allTools(config))
  /\ \E r1, r2 \in ListRequests : r1 < r2 /\ requests[r1].conn = requests[r2].conn


(***************************************************************************)
(* C24.  Session identifiers never collide: two transports, of either      *)
(* variant, never have the same identifier, every store entry is kept      *)
(* under the identifier of its own transport, and a step never replaces    *)
(* the entry of an identifier that is in a store.                          *)
(***************************************************************************)
\* The identifier of a transport: the one an event-stream handler drew for
\* it, or the one a streamable transport generated at its initialization.
IdOf(t) ==
  IF transports[t].kind = "sse" THEN {transports[t].key} ELSE transports[t].sessionId

C24_IdentifiersNeverCollide ==
  /\ [](/\ \A t1, t2 \in 1..Len(transports) :
             t1 # t2 => IdOf(t1) \cap IdOf(t2) = {}
        /\ \A i, j \in 1..Len(httpRequests) :
             (i # j /\ httpRequests[i].key # 0) =>
               httpRequests[i].key # httpRequests[j].key
        /\ \A k \in DOMAIN streamableSessions :
             IdOf(streamableSessions[k].transport) = {k}
        /\ \A k \in DOMAIN sseSessions :
             IdOf(sseSessions[k].transport) = {k}
        /\ DOMAIN streamableSessions \cap DOMAIN sseSessions = {})
  /\ [][/\ \A k \in DOMAIN streamableSessions \cap DOMAIN streamableSessions' :
             streamableSessions'[k] = streamableSessions[k]
        /\ \A k \in DOMAIN sseSessions \cap DOMAIN sseSessions' :
             sseSessions'[k] = sseSessions[k]]_vars

\* Two event-stream requests drew their identifiers before either was
\* connected, the later one connected first, and both sessions are stored.
C24_Witness ==
  /\ Cardinality(DOMAIN sseSessions) = 2
  /\ \E i, j \in 1..Len(httpRequests) :
       /\ i < j
       /\ httpRequests[i].path = "/sse" /\ httpRequests[j].path = "/sse"
       /\ httpRequests[i].pc = "streaming" /\ httpRequests[j].pc = "streaming"
       /\ httpRequests[j].transport < httpRequests[i].transport

(***************************************************************************)
(* C25.  Each store entry has exactly one transport, of its own variant    *)
(* and connected to the entry's connection; no transport is in two         *)
(* entries, of one store or of both; and neither the transport of an       *)
(* entry nor the connection of a transport ever changes.                   *)
(***************************************************************************)
StoreEntries ==
  {<<"streamable", k>> : k \in DOMAIN streamableSessions}
    \cup {<<"sse", k>> : k \in DOMAIN sseSessions}

EntryOf(e) == IF e[1] = "sse" THEN sseSessions[e[2]] ELSE streamableSessions[e[2]]

C25_OneTransportPerSession ==
  /\ [](/\ \A e \in StoreEntries :
             /\ EntryOf(e).transport \in 1..Len(transports)
             /\ transports[EntryOf(e).transport].kind = e[1]
             /\ transports[EntryOf(e).transport].conn = EntryOf(e).connection
        /\ \A e1, e2 \in StoreEntries :
             e1 # e2 => EntryOf(e1).transport # EntryOf(e2).transport)
  /\ [][/\ \A k \in DOMAIN streamableSessions \cap DOMAIN streamableSessions' :
             streamableSessions'[k].transport = streamableSessions[k].transport
        /\ \A k \in DOMAIN sseSessions \cap DOMAIN sseSessions' :
             sseSessions'[k].transport = sseSessions[k].transport
        /\ \A t \in 1..Len(transports) :
             /\ transports'[t].conn = transports[t].conn
             /\ transports'[t].kind = transports[t].kind]_vars

\* One session of each variant is stored.
C25_Witness ==
  /\ Cardinality(DOMAIN streamableSessions) = 1
  /\ Cardinality(DOMAIN sseSessions) = 1


(***************************************************************************)
(* C26.  A request to a path other than the streamable path, the           *)
(* event-stream path and the liveness path is answered with the not-found  *)
(* reply by the listener itself: it gets no connection and no transport,   *)
(* and the step that takes it leaves the connections, the dispatched       *)
(* requests, the transports, both session stores and the process as they   *)
(* were.                                                                   *)
(***************************************************************************)
OtherPath(h) == Route(RawPath(h.url)) = "notFound"

C26_UnknownPathNotFound ==
  /\ [](\A i \in 1..Len(httpRequests) :
          OtherPath(httpRequests[i]) =>
            /\ httpRequests[i].reply = {Reply(404, "Not Found")}
            /\ httpRequests[i].conn = 0
            /\ httpRequests[i].transport = 0)
  /\ [][(Len(httpRequests') > Len(httpRequests)
           /\ OtherPath(httpRequests'[Len(httpRequests')])) =>
          UNCHANGED <<connections, requests, transports, uuids,
                      streamableSessions, sseSessions, exitCode>>]_vars

(***************************************************************************)
(* C27.  A request to the liveness path gets the fixed healthy reply,      *)
(* whatever its method, its headers and the contents of the session        *)
(* stores, and the step that takes it creates, touches and removes no      *)
(* session.                                                                *)
(***************************************************************************)
LivenessPath(h) == Route(RawPath(h.url)) = "health"

C27_HealthFixedAnswer ==
  /\ [](\A i \in 1..Len(httpRequests) :
          LivenessPath(httpRequests[i]) =>
            httpRequests[i].reply = {Reply(200, HealthyBody)})
  /\ [][(Len(httpRequests') > Len(httpRequests)
           /\ LivenessPath(httpRequests'[Len(httpRequests')])) =>
          UNCHANGED <<connections, requests, transports, uuids,
                      streamableSessions, sseSessions, exitCode>>]_vars


(***************************************************************************)
(* C28.  The transport chosen at start-up follows the documented rules:    *)
(* with --stdio among the arguments the STDIO transport is used whatever   *)
(* else is given; otherwise a --port argument with a port number, or a     *)
(* non-empty PORT variable, selects HTTP; with none of them STDIO is used. *)
(***************************************************************************)
\* The first --port argument is followed by a positive decimal number.
PortGiven ==
  LET i == indexOf(argv, "--port")
  IN /\ i # 0 /\ i < Len(argv)
     /\ Len(argv[i + 1]) > 0
     /\ \A k \in 1..Len(argv[i + 1]) : IsDigit(SubSeq(argv[i + 1], k, k))
     /\ \E k \in 1..Len(argv[i + 1]) : SubSeq(argv[i + 1], k, k) # "0"

C28_TransportSelection ==
  transportMode # {} =>
    transportMode =
      {IF includes(argv, "--stdio") THEN "stdio"
       ELSE IF PortGiven \/ envPort \notin {{}, {""}} THEN "http"
       ELSE "stdio"}


(***************************************************************************)
(* C29.  The tool catalogue is fixed: within the snapshot set and within   *)
(* the vision set no two tools have the same name, so a name resolves to   *)
(* at most one tool of a session, every session's tools are tools of the   *)
(* catalogue, and no step (session creation, list-tools, call-tool, close) *)
(* adds, removes or changes a tool of an existing session.                 *)
(***************************************************************************)
UniqueNames(tools) ==
  \A i, j \in 1..Len(tools) : i # j => tools[i].schema.name # tools[j].schema.name

C29_CatalogueFixed ==
  /\ [](/\ UniqueNames(snapshotTools)
        /\ UniqueNames(visionTools)
        /\ \A c \in 1..Len(connections) :
             /\ UniqueNames(connections[c].tools)
             /\ Range(connections[c].tools) \subseteq Range(allTools(config))
        /\ \A r \in CallRequests :
             Cardinality({i \in 1..Len(connections[requests[r].conn].tools) :
                            connections[requests[r].conn].tools[i].schema.name
                              = requests[r].name}) <= 1)
  /\ [][/\ config' = config
        /\ \A c \in 1..Len(connections) :
             connections'[c].tools = connections[c].tools]_vars

\* A call-tool request of a session was answered and a session was closed
\* by a DELETE request.
C29_Witness ==
  /\ DoneCalls # {}
  /\ \E t \in 1..Len(transports) : transports[t].closed

(***************************************************************************)
(* C30.  The mode flag selects the tool set a session filters from: the    *)
(* vision set when config.vision is set, the snapshot set otherwise.       *)
(* Every name of the vision set is in the snapshot set, the names in the   *)
(* snapshot set alone are browser_click and browser_type, and in vision    *)
(* mode a call of either gets the not-found result and runs no handler,    *)
(* while without vision both are visible to every session.                 *)
(***************************************************************************)
FullOnlyNames == Range(MapName(snapshotTools)) \ Range(MapName(visionTools))

C30_ModeSelectsToolSet ==
  /\ Range(MapName(visionTools)) \subseteq Range(MapName(snapshotTools))
  /\ FullOnlyNames = {"browser_click", "browser_type"}
  /\ \A c \in 1..Len(connections) :
       /\ connections[c].tools =
            SelectSeq(IF config.vision THEN visionTools ELSE snapshotTools,
                      LAMBDA tool : IsVisible(config, tool))
       /\ config.vision => VisibleNames(c) \cap FullOnlyNames = {}
       /\ ~config.vision => FullOnlyNames \subseteq VisibleNames(c)
  /\ \A r \in CallRequests :
       (config.vision /\ requests[r].name \in FullOnlyNames) =>
         /\ requests[r].pc = "done"
         /\ requests[r].handleRuns = 0
         /\ requests[r].results = <<NotFoundResult(requests[r].name)>>

\* In vision mode a call of browser_click was answered with an error.
C30_Witness ==
  /\ config.vision
  /\ \E r \in DoneCalls :
       /\ requests[r].name = "browser_click"
       /\ Len(requests[r].results) = 1
       /\ IsError(requests[r].results[1])


(***************************************************************************)
(* C31.  For a found tool whose handle does not throw, the result is       *)
(* chosen in this order: when the tool result has an action, the action is *)
(* run exactly once and its content, when it has any, is the content of    *)
(* the result; in every other case the result is the one fixed text item   *)
(* 'Tool executed successfully'.  When handle throws the action is never   *)
(* run.                                                                    *)
(***************************************************************************)
FoundCalls ==
  {r \in CallRequests :
     findTool(connections[requests[r].conn].tools, requests[r].name) # {}}

C31_ResultPrecedence ==
  \A r \in FoundCalls :
    LET req == requests[r]
        outcome == handle(ToolOf(req), req.arguments)
    IN /\ req.actionRuns <= 1
       /\ outcome.threw => req.actionRuns = 0
       /\ (~outcome.threw /\ req.pc = "done") =>
            IF outcome.result.action = {}
            THEN /\ req.actionRuns = 0
                 /\ req.results =
                      << [content |-> << [type |-> "text",
                                          text |-> "Tool executed successfully"] >>] >>
            ELSE /\ req.actionRuns = 1
                 /\ \A a \in outcome.result.action :
                      req.results =
                        IF "content" \in DOMAIN a
                        THEN << [content |-> a.content] >>
                        ELSE << [content |-> << [type |-> "text",
                                   text |-> "Tool executed successfully"] >>] >>
       /\ (req.name = "browser_get_text" /\ req.arguments # {} /\ req.pc = "done") =>
            req.results = << [content |-> << [type |-> "text", text |-> ""] >>] >>

\* A call of browser_get_text ran its action once and returned the action's
\* content.
C31_Witness ==
  \E r \in DoneCalls :
    /\ requests[r].name = "browser_get_text"
    /\ requests[r].actionRuns = 1
    /\ requests[r].results = << [content |-> << [type |-> "text", text |-> ""] >>] >>


(***************************************************************************)
(* C32.  A companion POST of the event-stream variant whose session header *)
(* is missing or names no key of the event-stream store is answered with   *)
(* 404 'Session not found' in the step that takes it; its body is never    *)
(* read (the request never changes afterwards), and the step leaves both   *)
(* stores, the transports, the connections and the dispatched requests     *)
(* unchanged.                                                              *)
(***************************************************************************)
SsePost(h) == h.path = "/sse" /\ h.method = "POST"

C32_UnknownSsePostRejected ==
  /\ [][(Len(httpRequests') > Len(httpRequests)
           /\ SsePost(httpRequests'[Len(httpRequests')])
           /\ httpRequests'[Len(httpRequests')].sessionId \cap DOMAIN sseSessions = {}) =>
          /\ httpRequests'[Len(httpRequests')].pc = "replied"
          /\ httpRequests'[Len(httpRequests')].reply =
               {[status |-> 404, body |-> "Session not found", sessionId |-> {}]}
          /\ httpRequests'[Len(httpRequests')].conn = 0
          /\ httpRequests'[Len(httpRequests')].transport = 0
          /\ UNCHANGED <<sseSessions, streamableSessions, transports, connections,
                         requests, uuids>>]_vars
  /\ [][\A i \in 1..Len(httpRequests) :
          (SsePost(httpRequests[i]) /\ ~httpRequests[i].found) =>
            httpRequests'[i] = httpRequests[i]]_vars

\* With an event-stream session stored, a companion POST without a session
\* header was answered 404.
C32_Witness ==
  /\ DOMAIN sseSessions # {}
  /\ \E i \in 1..Len(httpRequests) :
       /\ SsePost(httpRequests[i])
       /\ httpRequests[i].sessionId = {}
       /\ httpRequests[i].reply = {Reply(404, "Session not found")}


(***************************************************************************)
(* C33.  A streamable session enters the store only in the step in which   *)
(* its transport becomes initialized, under the identifier the transport   *)
(* generated, and its entry pairs that transport with the connection made  *)
(* in the same request; a request that made a connection and did not       *)
(* complete a handshake has no entry, and no step of it changes the store. *)
(***************************************************************************)
\* The request that made connection c.
CreatedBy(i, c) == ~httpRequests[i].found /\ httpRequests[i].conn = c

C33_StoredOnlyWhenInitialized ==
  /\ [](\A k \in DOMAIN streamableSessions :
          LET e == streamableSessions[k]
          IN /\ transports[e.transport].initialized
             /\ transports[e.transport].sessionId = {k}
             /\ transports[e.transport].conn = e.connection
             /\ \E i \in 1..Len(httpRequests) :
                  /\ CreatedBy(i, e.connection)
                  /\ httpRequests[i].transport = e.transport
                  /\ httpRequests[i].body = "initialize"
                  /\ httpRequests[i].pc = "replied"
                  /\ \A rep \in httpRequests[i].reply : rep.sessionId = {k})
  /\ [][\A k \in DOMAIN streamableSessions' \ DOMAIN streamableSessions :
          /\ ~transports[streamableSessions'[k].transport].initialized
          /\ transports'[streamableSessions'[k].transport].initialized]_vars
  /\ [][\A i \in 1..Len(httpRequests') :
          (httpRequests'[i].path = "/mcp"
             /\ httpRequests'[i].body # "initialize"
             /\ (i > Len(httpRequests) \/ httpRequests'[i] # httpRequests[i])) =>
            streamableSessions' = streamableSessions]_vars

\* One handshake was answered and its session is stored; a tools/list
\* request without an identifier got a connection and a transport of its
\* own, was answered, and has no entry.
C33_Witness ==
  /\ Cardinality(DOMAIN streamableSessions) = 1
  /\ \E i, j \in 1..Len(httpRequests) :
       /\ Handshake(httpRequests[i]) /\ httpRequests[i].pc = "replied"
       /\ httpRequests[j].path = "/mcp" /\ httpRequests[j].sessionId = {}
       /\ httpRequests[j].body = "tools/list"
       /\ httpRequests[j].pc = "replied"
       /\ httpRequests[j].transport # 0


(***************************************************************************)
(* C34.  Every inbound request is answered: whatever its path and method,  *)
(* its handler ends the response, opens an event stream, or hands the      *)
(* request to a transport; no handler returns, or throws, with nothing     *)
(* written to the response.                                                *)
(***************************************************************************)
C34_EveryRequestAnswered ==
  \A i \in 1..Len(httpRequests) : httpRequests[i].pc \notin {"returned", "threw"}


(***************************************************************************)
(* C35.  The connection list only grows: a step adds at most one           *)
(* Connection, the added one has not been connected yet, and no step       *)
(* (connect failure, transport close, connection close) removes or         *)
(* replaces an entry; the step that begins the shutdown calls close        *)
(* exactly once on every connection of the list, the closed and the failed *)
(* ones included.                                                          *)
(***************************************************************************)
ClosesFor(cs, c) == {k \in 1..Len(cs) : cs[k].conn = c}

C35_ConnectionListOnlyGrows ==
  /\ [][/\ Len(connections') \in {Len(connections), Len(connections) + 1}
        /\ \A c \in 1..Len(connections) :
             /\ connections'[c].context = connections[c].context
             /\ connections'[c].tools = connections[c].tools
        /\ Len(connections') > Len(connections) =>
             connections'[Len(connections')].state = "connecting"]_vars
  /\ [][(~isExiting /\ isExiting') =>
          /\ Len(closes') = Len(closes) + Len(connections)
          /\ \A c \in 1..Len(connections) :
               Cardinality(ClosesFor(closes', c)) = 1]_vars

\* The shutdown has begun with three kinds of connection on the list: close
\* is pending on one whose transport had closed and on one whose connect
\* had failed.
C35_Witness ==
  /\ isExiting
  /\ \E k1, k2 \in 1..Len(closes) :
       /\ closes[k1].state = "pending" /\ closes[k2].state = "pending"
       /\ connections[closes[k1].conn].state = "closed"
       /\ connections[closes[k2].conn].state = "failed"

(***************************************************************************)
(* C36.  The watchdog closes exactly the connections that are on the list  *)
(* when the first signal is handled: a connection made after the shutdown  *)
(* has begun and before the process exits is put on the list like any      *)
(* other, and no close is ever called on it, whatever signals follow.      *)
(***************************************************************************)
\* The number of connections on the list when the shutdown began.
AtShutdown == shutdowns[1].last - shutdowns[1].first + 1

C36_LateConnectionsNotClosed ==
  /\ [](isExiting =>
          /\ Len(shutdowns) = 1
          /\ AtShutdown <= Len(connections)
          /\ {closes[k].conn : k \in 1..Len(closes)} = 1..AtShutdown
          /\ \A c \in (AtShutdown + 1)..Len(connections) : ClosesFor(closes, c) = {})
  /\ [][(isExiting /\ Len(connections') > Len(connections)) =>
          /\ closes' = closes
          /\ connections'[Len(connections')] =
               NewConnection(config, Len(connections) + 1)]_vars

\* A connection was made and connected after the shutdown began, a second
\* signal arrived after that, and the process is still running.
C36_Witness ==
  /\ isExiting
  /\ exitCode = {}
  /\ Len(signals) >= 2
  /\ \E c \in 1..Len(connections) :
       /\ c > AtShutdown
       /\ connections[c].state = "connected"

====
